---------------------------- MODULE Spec2Model ----------------------------
(***************************************************************************)
(* Vehicle speed estimation core: SimpleTracker (tracker.py),              *)
(* VehicleTrack (data_structures.py), PerspectiveTransformer               *)
(* (perspective_transformer.py) and SpeedEstimator (speed_estimator.py).   *)
(*                                                                         *)
(* Numbers.  The source computes in floating point.  Here image and world  *)
(* coordinates and timestamps are integers, distances are exact square     *)
(* roots (the point sets are chosen so that every distance that is         *)
(* computed is an integer), and speeds are exact fractions <<num, den>>    *)
(* in lowest terms with den > 0.                                           *)
(***************************************************************************)
EXTENDS Integers, Sequences, FiniteSets

VARIABLES
    max_disappeared,    \* SimpleTracker.max_disappeared
    max_distance,       \* SimpleTracker.max_distance
    next_id,            \* SimpleTracker.next_id
    tracks,             \* SimpleTracker.tracks: id -> [center, disappeared]
    detections,         \* argument of the last SimpleTracker.update call
    results,            \* value returned by the last SimpleTracker.update call
    unmatched           \* history: id -> number of update calls since the track was
                        \* created or last paired with a detection, counted while
                        \* the id is in the registry

trackerVars == <<max_disappeared, max_distance, next_id, tracks, detections, results,
                 unmatched>>

VARIABLES
    vt,                 \* a VehicleTrack used on its own
    route,              \* the world positions the vehicle of vt visits, over and over
    speed_feed,         \* the speeds handed to vt.add_speed, over and over
    fed_points,         \* history: every TrackPoint passed to vt.add_point, in order
    fed_speeds,         \* history: every speed passed to vt.add_speed, in order
    average             \* the last vt.get_average_speed() call: [speeds, value]

trackVars == <<vt, route, speed_feed, fed_points, fed_speeds, average>>

VARIABLES
    matrix,             \* PerspectiveTransformer.matrix (None until calibrated)
    inverse_matrix,     \* PerspectiveTransformer.inverse_matrix
    vehicle_tracks,     \* SpeedEstimator.vehicle_tracks: id -> VehicleTrack
    total_vehicles,     \* SpeedEstimator.total_vehicles
    speed_measurements, \* SpeedEstimator.speed_measurements
    est_call,           \* the last call on the estimator or its transformer
    ret,                \* value returned by the last SpeedEstimator.update call
    updates,            \* history: number of SpeedEstimator.update calls that returned
    accepted,           \* history: number of SpeedEstimator.update calls that returned a speed
    statistics,         \* value returned by the last call, when that was get_statistics
    mapped,             \* the last call, when that was image_to_world or world_to_image
                        \* and returned: [point, value]
    calibration,        \* arguments of the last call, when that was calibrate
    calibrated          \* history: some calibrate call has returned True

estVars == <<matrix, inverse_matrix, vehicle_tracks, total_vehicles, speed_measurements,
             est_call, ret, updates, accepted, statistics, mapped, calibration, calibrated>>

vars == <<trackerVars, trackVars, estVars>>

-----------------------------------------------------------------------------
(* Bounds of the model *)

MaxId == 3              \* SimpleTracker.update is not called once it would allocate an id above this
MaxDets == 2            \* most detections in one frame
ShortDisappeared == 1   \* max_disappeared of the tracker built with a short patience
MaxRoute == 2           \* longest repeating pattern of positions fed to one VehicleTrack
MaxPointCalls == 32     \* most add_point calls on the VehicleTrack used on its own
MaxSpeedCalls == 12     \* most add_speed calls on the VehicleTrack used on its own
MaxSamples == 4         \* most add_speed calls before get_average_speed is examined
MaxUpdates == 4         \* most SpeedEstimator.update calls that return
MaxFrameUpdates == 3    \* most SpeedEstimator.update calls made by process_frame
MaxLongUpdates == 13    \* most SpeedEstimator.update calls of the long run of one vehicle
MaxFrames == 21         \* most frames read by the loop of main
MaxPacedUpdates == 6    \* most SpeedEstimator.update calls of the vehicle of changing pace

-----------------------------------------------------------------------------
(* Generic helpers *)

Range(s) == {s[i] : i \in 1..Len(s)}

RECURSIVE SetToSortedSeq(_)
\* the elements of a finite set of integers, ascending
SetToSortedSeq(S) ==
    IF S = {} THEN <<>>
    ELSE LET m == CHOOSE x \in S : \A y \in S : x <= y
         IN  <<m>> \o SetToSortedSeq(S \ {m})

RECURSIVE SqrtIter(_, _, _)
\* lo * lo <= n < hi * hi; the integer part of the square root of n
SqrtIter(n, lo, hi) ==
    IF hi - lo <= 1 THEN lo
    ELSE LET mid == (lo + hi) \div 2
         IN  IF mid <= n \div mid THEN SqrtIter(n, mid, hi) ELSE SqrtIter(n, lo, mid)

\* math.sqrt on the perfect squares the model's point sets produce
\* (undefined, hence an evaluation error, on anything else)
Sqrt(n) == CHOOSE r \in {SqrtIter(n, 0, n + 1)} : r * r = n

\* math.sqrt(dx**2 + dy**2) between two points <<x, y>>
Distance(p, q) == Sqrt((p[1] - q[1]) * (p[1] - q[1]) + (p[2] - q[2]) * (p[2] - q[2]))

\* the greatest common divisor of two naturals, not both 0
RECURSIVE GCD(_, _)
GCD(a, b) == IF b = 0 THEN a ELSE GCD(b, a % b)

Abs(x) == IF x < 0 THEN -x ELSE x

\* the fraction n / d (d # 0) in lowest terms with a positive denominator
Frac(n, d) ==
    LET g == GCD(Abs(n), Abs(d))
        sgn == IF d < 0 THEN -1 ELSE 1
    IN  <<sgn * (n \div g), sgn * (d \div g)>>

FracOfInt(n) == <<n, 1>>
FracLess(a, b) == a[1] * b[2] < b[1] * a[2]
FracLeq(a, b) == a[1] * b[2] <= b[1] * a[2]
FracAdd(a, b) == Frac(a[1] * b[2] + b[1] * a[2], a[2] * b[2])
FracSub(a, b) == Frac(a[1] * b[2] - b[1] * a[2], a[2] * b[2])
FracAbs(a) == <<Abs(a[1]), a[2]>>
FracDivInt(a, n) == Frac(a[1], a[2] * n)

RECURSIVE FracSum(_)
FracSum(s) == IF s = <<>> THEN FracOfInt(0) ELSE FracAdd(Head(s), FracSum(Tail(s)))

\* s[-n:] for n > 0: the last n entries of s, all of s when it is shorter
LastPoints(s, n) == IF Len(s) <= n THEN s ELSE SubSeq(s, Len(s) - n + 1, Len(s))

\* Optional[...]: None and a present value
None == <<>>
Some(v) == <<v>>

-----------------------------------------------------------------------------
(* data_structures.py: Detection *)

\* a Detection whose box is 20 x 20 around c (confidence and class play no
\* part in tracking or speed estimation and are left out)
Box(c) == [x1 |-> c[1] - 10, y1 |-> c[2] - 10, x2 |-> c[1] + 10, y2 |-> c[2] + 10]

\* Detection.center; the boxes of the model have even x1 + x2 and y1 + y2
Center(d) == <<(d.x1 + d.x2) \div 2, (d.y1 + d.y2) \div 2>>

-----------------------------------------------------------------------------
(* data_structures.py: TrackPoint and VehicleTrack *)

\* TrackPoint(timestamp, image_pos, world_pos); speed_kmh is never set
TrackPoint(timestamp, image_pos, world_pos) ==
    [timestamp |-> timestamp, image_pos |-> image_pos, world_pos |-> world_pos]

PointsMaxLen == 30
SpeedsMaxLen == 10

\* VehicleTrack(track_id=track_id)
NewVehicleTrack(track_id) ==
    [track_id |-> track_id, points |-> <<>>, speeds |-> <<>>, last_update |-> 0,
     total_distance |-> 0, frames_tracked |-> 0]

\* AppendBounded that refuses the new entry when the deque is full
AppendBoundedKeepOldest(s, x, maxlen) ==
    IF Len(s) >= maxlen THEN s ELSE Append(s, x)

\* deque(maxlen=maxlen).append(x): a full deque drops its leftmost entry
AppendBounded(s, x, maxlen) ==
    IF Len(s) >= maxlen THEN Append(Tail(s), x) ELSE Append(s, x)

\* AddPoint measuring the distance from the oldest buffered point
AddPointFromOldest(track, point) ==
    LET points == AppendBounded(track.points, point, PointsMaxLen)
    IN  [track EXCEPT
            !.points = points,
            !.last_update = point.timestamp,
            !.frames_tracked = track.frames_tracked + 1,
            !.total_distance =
                IF Len(points) >= 2
                THEN track.total_distance + Distance(point.world_pos, points[1].world_pos)
                ELSE track.total_distance]

\* AddPoint leaving last_update as it was
AddPointKeepingLastUpdate(track, point) ==
    LET points == AppendBounded(track.points, point, PointsMaxLen)
    IN  [track EXCEPT
            !.points = points,
            !.frames_tracked = track.frames_tracked + 1,
            !.total_distance =
                IF Len(points) >= 2
                THEN track.total_distance +
                     Distance(point.world_pos, points[Len(points) - 1].world_pos)
                ELSE track.total_distance]

\* VehicleTrack.add_point(point)
AddPoint(track, point) ==
    LET points == AppendBounded(track.points, point, PointsMaxLen)
    IN  [track EXCEPT
            !.points = points,
            !.last_update = point.timestamp,
            !.frames_tracked = track.frames_tracked + 1,
            !.total_distance =
                IF Len(points) >= 2
                THEN track.total_distance +
                     Distance(point.world_pos, points[Len(points) - 1].world_pos)
                ELSE track.total_distance]

\* VehicleTrack.add_speed(speed)
AddSpeed(track, speed) ==
    IF FracLess(FracOfInt(0), speed)
    THEN [track EXCEPT !.speeds = AppendBounded(track.speeds, speed, SpeedsMaxLen)]
    ELSE track

\* s with x put before the first entry that is greater than x
RECURSIVE InsertSorted(_, _)
InsertSorted(s, x) ==
    IF s = <<>> THEN <<x>>
    ELSE IF FracLess(x, Head(s)) THEN <<x>> \o s
    ELSE <<Head(s)>> \o InsertSorted(Tail(s), x)

\* sorted(s)
RECURSIVE Sorted(_)
Sorted(s) == IF s = <<>> THEN <<>> ELSE InsertSorted(Sorted(Tail(s)), Head(s))

\* np.median(s) of a non-empty list: the middle entry of the sorted list, or
\* the mean of the two middle entries
Median(s) ==
    LET srt == Sorted(s)
        n == Len(s)
    IN  IF n % 2 = 1 THEN srt[(n + 1) \div 2]
        ELSE FracDivInt(FracAdd(srt[n \div 2], srt[(n \div 2) + 1]), 2)

\* np.mean(s) of a non-empty list
Mean(s) == FracDivInt(FracSum(s), Len(s))

\* a double holds the fraction a exactly: in lowest terms its denominator is
\* a power of two
RECURSIVE IsPowerOfTwo(_)
IsPowerOfTwo(d) == d = 1 \/ (d % 2 = 0 /\ IsPowerOfTwo(d \div 2))
Dyadic(a) == IsPowerOfTwo(Frac(a[1], a[2])[2])

\* the double of a sample of s km/h is s itself: s is a binary fraction, and
\* so is the speed s / 3.6 m/s that line 106 of speed_estimator.py converts
\* (otherwise the double is s or a neighbour of s)
ExactSample(s) == Dyadic(s) /\ Dyadic(Frac(s[1] * 5, s[2] * 18))

\* the positions of speeds_list whose test abs(s - median) < median * 0.5
\* (line 84) is decided by the rounding of the doubles: the sample is half
\* the median away from the median, and the sample or an entry the median is
\* taken from is not its double
Borderline(speeds_list) ==
    LET srt == Sorted(speeds_list)
        n == Len(speeds_list)
        median_speed == Median(speeds_list)
        exact_median == ExactSample(srt[(n + 1) \div 2]) /\ ExactSample(srt[(n \div 2) + 1])
    IN  {k \in 1..n :
            /\ FracAbs(FracSub(speeds_list[k], median_speed)) = FracDivInt(median_speed, 2)
            /\ ~(ExactSample(speeds_list[k]) /\ exact_median)}

\* the entries of s at the positions in keep, in order
Pick(s, keep) ==
    LET idx == SelectSeq([k \in 1..Len(s) |-> k], LAMBDA k : k \in keep)
    IN  [i \in 1..Len(idx) |-> s[idx[i]]]

\* get_average_speed() when rounding puts the borderline samples at the
\* positions in below under the bound of line 84, and the others not
GetAverageSpeedRounded(track, below) ==
    IF track.speeds = <<>> THEN None
    ELSE LET speeds_list == track.speeds
             median_speed == Median(speeds_list)
             filtered_speeds ==
                 Pick(speeds_list,
                      {k \in 1..Len(speeds_list) :
                          \/ k \in below
                          \/ /\ k \notin Borderline(speeds_list)
                             /\ FracLess(FracAbs(FracSub(speeds_list[k], median_speed)),
                                         FracDivInt(median_speed, 2))})
         IN  IF Len(speeds_list) >= 3 /\ filtered_speeds # <<>>
             THEN Some(Mean(filtered_speeds))
             ELSE Some(Mean(speeds_list))

\* GetAverageSpeed returning nothing when the filter leaves no sample
GetAverageSpeedOrNothing(track) ==
    {IF track.speeds = <<>> THEN None
     ELSE LET speeds_list == track.speeds
              median_speed == Median(speeds_list)
              filtered_speeds ==
                  SelectSeq(speeds_list, LAMBDA v :
                      FracLess(FracAbs(FracSub(v, median_speed)), FracDivInt(median_speed, 2)))
          IN  IF Len(speeds_list) >= 3
              THEN IF filtered_speeds # <<>> THEN Some(Mean(filtered_speeds)) ELSE None
              ELSE Some(Mean(speeds_list))}

\* GetAverageSpeed keeping a sample that deviates by exactly half the median
GetAverageSpeedInclusive(track) ==
    {IF track.speeds = <<>> THEN None
     ELSE LET speeds_list == track.speeds
              median_speed == Median(speeds_list)
              filtered_speeds ==
                  SelectSeq(speeds_list, LAMBDA v :
                      FracLeq(FracAbs(FracSub(v, median_speed)), FracDivInt(median_speed, 2)))
          IN  IF Len(speeds_list) >= 3 /\ filtered_speeds # <<>>
              THEN Some(Mean(filtered_speeds))
              ELSE Some(Mean(speeds_list))}

\* VehicleTrack.get_average_speed(): the values it can return.  The samples
\* are doubles; the model holds the fractions they stand for, and the test of
\* line 84 is made on the doubles.  It has one outcome, that of the
\* fractions, except for a borderline sample, which rounding may put on
\* either side of the bound.
GetAverageSpeed(track) ==
    IF track.speeds = <<>> THEN {None}
    ELSE {GetAverageSpeedRounded(track, below) : below \in SUBSET Borderline(track.speeds)}

-----------------------------------------------------------------------------
(* perspective_transformer.py: PerspectiveTransformer.  A 3 x 3 matrix is a *)
(* tuple of three rows.  A homography is kept up to scale, with integer     *)
(* entries without a common factor and a positive last entry (OpenCV scales *)
(* that entry to 1.0); applying it divides the scale out again.             *)

Dot(u, v) == u[1] * v[1] + u[2] * v[2] + u[3] * v[3]

Col(m, j) == <<m[1][j], m[2][j], m[3][j]>>

MatVec(m, v) == <<Dot(m[1], v), Dot(m[2], v), Dot(m[3], v)>>

MatMul(a, b) == [i \in 1..3 |-> [j \in 1..3 |-> Dot(a[i], Col(b, j))]]

\* the adjugate of m: m times Adjugate(m) is det(m) times the identity
Adjugate(m) ==
    LET Minor(i, j) ==
            LET r == SetToSortedSeq({1, 2, 3} \ {i})
                c == SetToSortedSeq({1, 2, 3} \ {j})
            IN  m[r[1]][c[1]] * m[r[2]][c[2]] - m[r[1]][c[2]] * m[r[2]][c[1]]
        Sign(i, j) == IF (i + j) % 2 = 0 THEN 1 ELSE -1
    IN  [i \in 1..3 |-> [j \in 1..3 |-> Sign(i, j) * Minor(j, i)]]

GCD3(v) == GCD(GCD(Abs(v[1]), Abs(v[2])), Abs(v[3]))

\* v without the common factor of its entries (v is not all zero)
Reduced(v) == LET g == GCD3(v) IN <<v[1] \div g, v[2] \div g, v[3] \div g>>

\* the matrix that takes (1,0,0), (0,1,0), (0,0,1) and (1,1,1) to the four
\* points pts, in homogeneous coordinates and up to scale
BasisToPoints(pts) ==
    LET s == <<(<<pts[1][1], pts[2][1], pts[3][1]>>),
               (<<pts[1][2], pts[2][2], pts[3][2]>>),
               (<<1, 1, 1>>)>>
        l == Reduced(MatVec(Adjugate(s), <<pts[4][1], pts[4][2], 1>>))
    IN  [i \in 1..3 |-> [j \in 1..3 |-> s[i][j] * l[j]]]

\* the least j-th coordinate of the four points pts, and the largest step
\* that the j-th coordinates are all a multiple of once it is taken off
Origin(pts, j) ==
    CHOOSE o \in {pts[k][j] : k \in 1..4} : \A k \in 1..4 : o <= pts[k][j]

Step(pts, j) ==
    LET o == Origin(pts, j)
        g == GCD(GCD(pts[1][j] - o, pts[2][j] - o), GCD(pts[3][j] - o, pts[4][j] - o))
    IN  IF g = 0 THEN 1 ELSE g

\* pts with each coordinate counted in steps from its origin, and the
\* matrices (up to scale) that take a point to and from that form
Normalised(pts) ==
    [k \in 1..4 |-> <<(pts[k][1] - Origin(pts, 1)) \div Step(pts, 1),
                      (pts[k][2] - Origin(pts, 2)) \div Step(pts, 2)>>]

ToNormalised(pts) ==
    <<(<<Step(pts, 2), 0, -Origin(pts, 1) * Step(pts, 2)>>),
      (<<0, Step(pts, 1), -Origin(pts, 2) * Step(pts, 1)>>),
      (<<0, 0, Step(pts, 1) * Step(pts, 2)>>)>>

FromNormalised(pts) ==
    <<(<<Step(pts, 1), 0, Origin(pts, 1)>>),
      (<<0, Step(pts, 2), Origin(pts, 2)>>),
      (<<0, 0, 1>>)>>

\* the homogeneous matrix h without the common factor of its entries and
\* with h[3][3] >= 0
MatrixReduced(h) ==
    LET g == GCD(GCD(GCD3(h[1]), GCD3(h[2])), GCD3(h[3])) *
             (IF h[3][3] < 0 THEN -1 ELSE 1)
    IN  [i \in 1..3 |-> [j \in 1..3 |-> h[i][j] \div g]]

\* cv2.getPerspectiveTransform(src, dst) for four points src, no three of
\* them on a line, and four points dst: the homography that takes src[i] to
\* dst[i].  It is worked out between the normalised point sets, which keeps
\* the integers small, and carried back to the coordinates of src and dst.
GetPerspectiveTransform(src, dst) ==
    LET core == MatrixReduced(MatMul(BasisToPoints(Normalised(dst)),
                                     Adjugate(BasisToPoints(Normalised(src)))))
    IN  MatrixReduced(MatMul(FromNormalised(dst), MatMul(core, ToNormalised(src))))

\* a / b where b divides a, as on every point the model maps
ExactDiv(a, b) == CHOOSE q \in {a \div b} : q * b = a

\* cv2.perspectiveTransform on one point
PerspectiveTransform(p, m) ==
    LET v == MatVec(m, <<p[1], p[2], 1>>)
    IN  <<ExactDiv(v[1], v[3]), ExactDiv(v[2], v[3])>>

\* cv2.perspectiveTransform on one point, dividing by the bottom-right entry
\* of the matrix in place of the third homogeneous coordinate
PerspectiveTransformAffine(p, m) ==
    LET v == MatVec(m, <<p[1], p[2], 1>>)
    IN  <<Frac(v[1], m[3][3]), Frac(v[2], m[3][3])>>

\* cv2.perspectiveTransform on one point, as a pair of fractions: any point
\* that the matrix does not send to infinity
PerspectiveTransformFrac(p, m) ==
    LET v == MatVec(m, <<p[1], p[2], 1>>)
    IN  <<Frac(v[1], v[3]), Frac(v[2], v[3])>>

\* calibrate dropping the transform it had when it fails
CalibrateClearing(mat, inv, image_points, world_points) ==
    IF Len(image_points) # Len(world_points) \/ Len(image_points) # 4
    THEN [ok |-> FALSE, matrix |-> None, inverse_matrix |-> None]
    ELSE [ok |-> TRUE,
          matrix |-> Some(GetPerspectiveTransform(image_points, world_points)),
          inverse_matrix |-> Some(GetPerspectiveTransform(world_points, image_points))]

\* PerspectiveTransformer.calibrate(image_points, world_points): the value
\* returned and the two matrices afterwards.  cv2.getPerspectiveTransform
\* takes exactly four pairs and raises on any other number, which calibrate
\* catches.
Calibrate(mat, inv, image_points, world_points) ==
    IF Len(image_points) # Len(world_points) \/ Len(image_points) < 4
    THEN [ok |-> FALSE, matrix |-> mat, inverse_matrix |-> inv]
    ELSE IF Len(image_points) # 4
    THEN [ok |-> FALSE, matrix |-> mat, inverse_matrix |-> inv]
    ELSE [ok |-> TRUE,
          matrix |-> Some(GetPerspectiveTransform(image_points, world_points)),
          inverse_matrix |-> Some(GetPerspectiveTransform(world_points, image_points))]

-----------------------------------------------------------------------------
(* speed_estimator.py: SpeedEstimator *)

min_track_points == 3

\* RecentPoints taking the whole buffer
RecentPointsAll(track) == track.points

\* list(track.points)[-self.min_track_points:]
RecentPoints(track) == LastPoints(track.points, min_track_points)


\* PositivePairs taking in the pairs whose time difference is zero
RECURSIVE PositivePairsOrZero(_, _)
PositivePairsOrZero(pts, i) ==
    IF i > Len(pts) THEN [total_distance |-> 0, total_time |-> 0]
    ELSE LET rest == PositivePairsOrZero(pts, i + 1)
             distance == Distance(pts[i].world_pos, pts[i - 1].world_pos)
             time_diff == pts[i].timestamp - pts[i - 1].timestamp
         IN  IF time_diff >= 0
             THEN [total_distance |-> rest.total_distance + distance,
                   total_time |-> rest.total_time + time_diff]
             ELSE rest

\* PositivePairs without the test on time_diff
RECURSIVE AllPairs(_, _)
AllPairs(pts, i) ==
    IF i > Len(pts) THEN [total_distance |-> 0, total_time |-> 0]
    ELSE LET rest == AllPairs(pts, i + 1)
             distance == Distance(pts[i].world_pos, pts[i - 1].world_pos)
             time_diff == pts[i].timestamp - pts[i - 1].timestamp
         IN  [total_distance |-> rest.total_distance + distance,
              total_time |-> rest.total_time + time_diff]

\* the sums of the loop at lines 87-101 over the points pts: the distance and
\* the time of the consecutive pairs whose time difference is positive
RECURSIVE PositivePairs(_, _)
PositivePairs(pts, i) ==
    IF i > Len(pts) THEN [total_distance |-> 0, total_time |-> 0]
    ELSE LET rest == PositivePairs(pts, i + 1)
             distance == Distance(pts[i].world_pos, pts[i - 1].world_pos)
             time_diff == pts[i].timestamp - pts[i - 1].timestamp
         IN  IF time_diff > 0
             THEN [total_distance |-> rest.total_distance + distance,
                   total_time |-> rest.total_time + time_diff]
             ELSE rest

\* Plausible letting 200 km/h itself through
PlausibleUpTo200(speed_kmh) ==
    FracLess(FracOfInt(0), speed_kmh) /\ FracLeq(speed_kmh, FracOfInt(200))

\* the plausibility filter of line 109: 0 < speed_kmh < 200
Plausible(speed_kmh) ==
    FracLess(FracOfInt(0), speed_kmh) /\ FracLess(speed_kmh, FracOfInt(200))

\* SpeedEstimator._calculate_speed(track); km/h = m/s * 3.6 = m/s * 18 / 5
CalculateSpeed(track) ==
    IF Len(track.points) < 2 THEN None
    ELSE LET recent_points == RecentPoints(track)
             sums == PositivePairs(recent_points, 2)
         IN  IF Len(recent_points) < 2 THEN None
             ELSE IF sums.total_time > 0
             THEN LET speed_kmh == Frac(sums.total_distance * 18, sums.total_time * 5)
                  IN  IF Plausible(speed_kmh) THEN Some(speed_kmh) ELSE None
             ELSE None

\* line 63: len(track.points) >= self.min_track_points
EnoughPoints(track) == Len(track.points) >= min_track_points

\* EstimatorUpdate keeping the last 10 entries of the log, as a speeds buffer
EstimatorUpdateBoundedLog(vts, total, log, mat, track_id, detection, timestamp) ==
    LET world_pos == PerspectiveTransform(Center(detection), mat)
        track_point == TrackPoint(timestamp, Center(detection), world_pos)
        known == track_id \in DOMAIN vts
        track == AddPoint(IF known THEN vts[track_id] ELSE NewVehicleTrack(track_id),
                          track_point)
        speed == IF EnoughPoints(track) THEN CalculateSpeed(track) ELSE None
        track2 == IF speed # None THEN AddSpeed(track, speed[1]) ELSE track
    IN  [vehicle_tracks |-> [t \in DOMAIN vts \cup {track_id} |->
                                IF t = track_id THEN track2 ELSE vts[t]],
         total_vehicles |-> IF known THEN total ELSE total + 1,
         speed_measurements |-> IF speed # None THEN LastPoints(Append(log, speed[1]), 10) ELSE log,
         returns |-> IF speed # None THEN GetAverageSpeed(track2) ELSE {None}]

\* SpeedEstimator.update(track_id, detection, timestamp) on a calibrated
\* transformer mat: the store, the counter, the log and the values that the
\* call can return (one, unless rounding decides the filter of the smoothing)
EstimatorUpdate(vts, total, log, mat, track_id, detection, timestamp) ==
    LET world_pos == PerspectiveTransform(Center(detection), mat)
        track_point == TrackPoint(timestamp, Center(detection), world_pos)
        known == track_id \in DOMAIN vts
        track == AddPoint(IF known THEN vts[track_id] ELSE NewVehicleTrack(track_id),
                          track_point)
        speed == IF EnoughPoints(track) THEN CalculateSpeed(track) ELSE None
        track2 == IF speed # None THEN AddSpeed(track, speed[1]) ELSE track
    IN  [vehicle_tracks |-> [t \in DOMAIN vts \cup {track_id} |->
                                IF t = track_id THEN track2 ELSE vts[t]],
         total_vehicles |-> IF known THEN total ELSE total + 1,
         speed_measurements |-> IF speed # None THEN Append(log, speed[1]) ELSE log,
         returns |-> IF speed # None THEN GetAverageSpeed(track2) ELSE {None}]

\* a * b and the square root of a fraction whose terms are perfect squares
FracMul(a, b) == Frac(a[1] * b[1], a[2] * b[2])
FracSqrt(a) == <<Sqrt(a[1]), Sqrt(a[2])>>

\* the largest and the smallest entry of a non-empty sequence of fractions
FracMax(s) == CHOOSE x \in Range(s) : \A y \in Range(s) : FracLeq(y, x)
FracMin(s) == CHOOSE x \in Range(s) : \A y \in Range(s) : FracLeq(x, y)

\* np.std: the square root of the mean squared deviation from the mean
Std(s) ==
    FracSqrt(Mean([k \in 1..Len(s) |-> FracMul(FracSub(s[k], Mean(s)), FracSub(s[k], Mean(s)))]))

\* get_statistics reporting zeros where the log is empty
GetStatisticsZeros(total, log) ==
    [total_vehicles |-> total,
     measurements |-> Len(log),
     average_speed |-> IF log = <<>> THEN Some(FracOfInt(0)) ELSE Some(Mean(log)),
     max_speed |-> IF log = <<>> THEN Some(FracOfInt(0)) ELSE Some(FracMax(log)),
     min_speed |-> IF log = <<>> THEN Some(FracOfInt(0)) ELSE Some(FracMin(log)),
     std_speed |-> IF log = <<>> THEN Some(FracOfInt(0)) ELSE Some(Std(log))]

\* SpeedEstimator.get_statistics() for the counter total and the log
GetStatistics(total, log) ==
    IF log = <<>>
    THEN [total_vehicles |-> total,
          measurements |-> 0,
          average_speed |-> None,
          max_speed |-> None,
          min_speed |-> None,
          std_speed |-> None]
    ELSE [total_vehicles |-> total,
          measurements |-> Len(log),
          average_speed |-> Some(Mean(log)),
          max_speed |-> Some(FracMax(log)),
          min_speed |-> Some(FracMin(log)),
          std_speed |-> Some(Std(log))]

\* CleanupOldTracks taking the age with the wrong sign
CleanupOldTracksReversed(vts, current_time, max_age) ==
    LET to_remove == {t \in DOMAIN vts : vts[t].last_update - current_time > max_age}
    IN  [t \in DOMAIN vts \ to_remove |-> vts[t]]

\* CleanupOldTracks also removing a track that is exactly max_age old
CleanupOldTracksInclusive(vts, current_time, max_age) ==
    LET to_remove == {t \in DOMAIN vts : current_time - vts[t].last_update >= max_age}
    IN  [t \in DOMAIN vts \ to_remove |-> vts[t]]

\* SpeedEstimator.cleanup_old_tracks(current_time, max_age)
CleanupOldTracks(vts, current_time, max_age) ==
    LET to_remove == {t \in DOMAIN vts : current_time - vts[t].last_update > max_age}
    IN  [t \in DOMAIN vts \ to_remove |-> vts[t]]

-----------------------------------------------------------------------------
(* tracker.py: SimpleTracker *)

\* the defaults of SimpleTracker.__init__, which SpeedDetectionSystem uses
DefaultMaxDisappeared == 30
DefaultMaxDistance == 100

\* list(self.tracks.keys()): a dict lists its keys in insertion order, and
\* keys are inserted in increasing order (next_id only grows)
TrackIds(tr) == SetToSortedSeq(DOMAIN tr)

RECURSIVE CreateNewTracksReusingIds(_, _, _, _)
\* CreateNewTracks taking the lowest id that is not in the registry
CreateNewTracksReusingIds(tr, nid, dets, js) ==
    IF js = <<>> THEN [tracks |-> tr, next_id |-> nid, results |-> <<>>]
    ELSE LET track_id == CHOOSE t \in 1..nid : t \notin DOMAIN tr /\
                              \A u \in 1..(t - 1) : u \in DOMAIN tr
             d == dets[Head(js)]
             tr1 == [t \in DOMAIN tr \cup {track_id} |->
                        IF t = track_id
                        THEN [center |-> Center(d), disappeared |-> 0]
                        ELSE tr[t]]
             rest == CreateNewTracksReusingIds(tr1, IF track_id = nid THEN nid + 1 ELSE nid,
                                               dets, Tail(js))
         IN  [tracks |-> rest.tracks, next_id |-> rest.next_id,
              results |-> <<(<<track_id, d>>)>> \o rest.results]

\* _create_new_track applied to the detections dets[j], j in js (ascending):
\* the registry, the counter and the (track_id, detection) pairs appended
RECURSIVE CreateNewTracks(_, _, _, _)
CreateNewTracks(tr, nid, dets, js) ==
    IF js = <<>> THEN [tracks |-> tr, next_id |-> nid, results |-> <<>>]
    ELSE LET track_id == nid
             d == dets[Head(js)]
             tr1 == [t \in DOMAIN tr \cup {track_id} |->
                        IF t = track_id
                        THEN [center |-> Center(d), disappeared |-> 0]
                        ELSE tr[t]]
             rest == CreateNewTracks(tr1, nid + 1, dets, Tail(js))
         IN  [tracks |-> rest.tracks, next_id |-> rest.next_id,
              results |-> <<(<<track_id, d>>)>> \o rest.results]

\* the square of distances[i, j] (lines 54-60).  The tracker only compares
\* distances with each other and with max_distance, and math.sqrt is strictly
\* increasing on the integers met here, so the squares decide every comparison
\* exactly as the distances do
DistanceSq(p, q) == (p[1] - q[1]) * (p[1] - q[1]) + (p[2] - q[2]) * (p[2] - q[2])

\* Assignments taking in the pairs that are exactly max_distance apart
AssignmentsInclusive(tr, dets) ==
    LET track_ids == TrackIds(tr)
        d2 == [i \in 1..Len(track_ids) |-> [j \in 1..Len(dets) |->
                  DistanceSq(tr[track_ids[i]].center, Center(dets[j]))]]
    IN  {<<d2[p[1]][p[2]], p[1], p[2]>> :
            p \in {q \in (1..Len(track_ids)) \X (1..Len(dets)) :
                       d2[q[1]][q[2]] <= max_distance * max_distance}}

\* the candidate list built at lines 68-72: (squared distance, track index,
\* detection index) for every pair closer than max_distance; indices are
\* 1-based here
Assignments(tr, dets) ==
    LET track_ids == TrackIds(tr)
        d2 == [i \in 1..Len(track_ids) |-> [j \in 1..Len(dets) |->
                  DistanceSq(tr[track_ids[i]].center, Center(dets[j]))]]
    IN  {<<d2[p[1]][p[2]], p[1], p[2]>> :
            p \in {q \in (1..Len(track_ids)) \X (1..Len(dets)) :
                       d2[q[1]][q[2]] < max_distance * max_distance}}

\* TupleLess putting the largest distance first
TupleLessFarthestFirst(a, b) ==
    \/ a[1] > b[1]
    \/ a[1] = b[1] /\ a[2] < b[2]
    \/ a[1] = b[1] /\ a[2] = b[2] /\ a[3] < b[3]

\* tuple comparison used by list.sort(): by distance, then track index, then
\* detection index
TupleLess(a, b) ==
    \/ a[1] < b[1]
    \/ a[1] = b[1] /\ a[2] < b[2]
    \/ a[1] = b[1] /\ a[2] = b[2] /\ a[3] < b[3]

RECURSIVE SortAssignments(_)
\* assignments.sort()
SortAssignments(S) ==
    IF S = {} THEN <<>>
    ELSE LET m == CHOOSE a \in S : \A b \in S \ {a} : TupleLess(a, b)
         IN  <<m>> \o SortAssignments(S \ {m})

RECURSIVE GreedyAssignAnyDetection(_, _, _)
\* GreedyAssign without the test on used_detections
GreedyAssignAnyDetection(assignments, used_tracks, used_detections) ==
    IF assignments = <<>> THEN <<>>
    ELSE LET a == Head(assignments)
         IN  IF a[2] \notin used_tracks
             THEN <<(<<a[2], a[3]>>)>> \o
                  GreedyAssignAnyDetection(Tail(assignments), used_tracks \cup {a[2]},
                                           used_detections \cup {a[3]})
             ELSE GreedyAssignAnyDetection(Tail(assignments), used_tracks, used_detections)

RECURSIVE GreedyAssignAnyTrack(_, _, _)
\* GreedyAssign without the test on used_tracks
GreedyAssignAnyTrack(assignments, used_tracks, used_detections) ==
    IF assignments = <<>> THEN <<>>
    ELSE LET a == Head(assignments)
         IN  IF a[3] \notin used_detections
             THEN <<(<<a[2], a[3]>>)>> \o
                  GreedyAssignAnyTrack(Tail(assignments), used_tracks \cup {a[2]},
                                       used_detections \cup {a[3]})
             ELSE GreedyAssignAnyTrack(Tail(assignments), used_tracks, used_detections)

\* the loop at lines 76-87 over the sorted candidates: the committed
\* <<track index, detection index>> pairs, in commit order
RECURSIVE GreedyAssign(_, _, _)
GreedyAssign(assignments, used_tracks, used_detections) ==
    IF assignments = <<>> THEN <<>>
    ELSE LET a == Head(assignments)
         IN  IF a[2] \notin used_tracks /\ a[3] \notin used_detections
             THEN <<(<<a[2], a[3]>>)>> \o
                  GreedyAssign(Tail(assignments), used_tracks \cup {a[2]},
                               used_detections \cup {a[3]})
             ELSE GreedyAssign(Tail(assignments), used_tracks, used_detections)

\* MarkDisappeared deleting a track as soon as its counter reaches max_disappeared
MarkDisappearedEarly(tr, ids) ==
    LET gone == {t \in ids : tr[t].disappeared + 1 >= max_disappeared}
    IN  [t \in DOMAIN tr \ gone |->
            IF t \in ids
            THEN [tr[t] EXCEPT !.disappeared = tr[t].disappeared + 1]
            ELSE tr[t]]

\* the disappeared counter of the tracks in ids is incremented and a track
\* whose counter exceeds max_disappeared is deleted (lines 30-36 and 96-100)
MarkDisappeared(tr, ids) ==
    LET gone == {t \in ids : tr[t].disappeared + 1 > max_disappeared}
    IN  [t \in DOMAIN tr \ gone |->
            IF t \in ids
            THEN [tr[t] EXCEPT !.disappeared = tr[t].disappeared + 1]
            ELSE tr[t]]

\* TrackerUpdate leaving the disappeared counter of a matched track as it was
TrackerUpdateKeepingCounter(tr, nid, dets) ==
    IF dets = <<>>
    THEN [tracks |-> MarkDisappeared(tr, DOMAIN tr), next_id |-> nid, results |-> <<>>]
    ELSE IF DOMAIN tr = {}
    THEN CreateNewTracks(tr, nid, dets, SetToSortedSeq(1..Len(dets)))
    ELSE LET track_ids == TrackIds(tr)
             pairs == GreedyAssign(SortAssignments(Assignments(tr, dets)), {}, {})
             used_tracks == {pairs[k][1] : k \in 1..Len(pairs)}
             used_detections == {pairs[k][2] : k \in 1..Len(pairs)}
             \* lines 82-83: a committed track takes the detection's centre
             matched == [t \in DOMAIN tr |->
                            IF \E k \in 1..Len(pairs) : track_ids[pairs[k][1]] = t
                            THEN LET k == CHOOSE k \in 1..Len(pairs) : track_ids[pairs[k][1]] = t
                                 IN  [center |-> Center(dets[pairs[k][2]]), disappeared |-> tr[t].disappeared]
                            ELSE tr[t]]
             matched_results == [k \in 1..Len(pairs) |->
                                    <<track_ids[pairs[k][1]], dets[pairs[k][2]]>>]
             created == CreateNewTracks(matched, nid, dets,
                            SetToSortedSeq((1..Len(dets)) \ used_detections))
             unassigned == {track_ids[i] : i \in (1..Len(track_ids)) \ used_tracks}
         IN  [tracks |-> MarkDisappeared(created.tracks, unassigned),
              next_id |-> created.next_id,
              results |-> matched_results \o created.results]

\* SimpleTracker.update(dets) in the state (tr, nid): the new registry, the
\* new counter and the returned list
TrackerUpdate(tr, nid, dets) ==
    IF dets = <<>>
    THEN [tracks |-> MarkDisappeared(tr, DOMAIN tr), next_id |-> nid, results |-> <<>>]
    ELSE IF DOMAIN tr = {}
    THEN CreateNewTracks(tr, nid, dets, SetToSortedSeq(1..Len(dets)))
    ELSE LET track_ids == TrackIds(tr)
             pairs == GreedyAssign(SortAssignments(Assignments(tr, dets)), {}, {})
             used_tracks == {pairs[k][1] : k \in 1..Len(pairs)}
             used_detections == {pairs[k][2] : k \in 1..Len(pairs)}
             \* lines 82-83: a committed track takes the detection's centre
             matched == [t \in DOMAIN tr |->
                            IF \E k \in 1..Len(pairs) : track_ids[pairs[k][1]] = t
                            THEN LET k == CHOOSE k \in 1..Len(pairs) : track_ids[pairs[k][1]] = t
                                 IN  [center |-> Center(dets[pairs[k][2]]), disappeared |-> 0]
                            ELSE tr[t]]
             matched_results == [k \in 1..Len(pairs) |->
                                    <<track_ids[pairs[k][1]], dets[pairs[k][2]]>>]
             created == CreateNewTracks(matched, nid, dets,
                            SetToSortedSeq((1..Len(dets)) \ used_detections))
             unassigned == {track_ids[i] : i \in (1..Len(track_ids)) \ used_tracks}
         IN  [tracks |-> MarkDisappeared(created.tracks, unassigned),
              next_id |-> created.next_id,
              results |-> matched_results \o created.results]

-----------------------------------------------------------------------------
(* The tracker on its own, fed any frame of at most MaxDets detections.     *)
(* SimpleTracker(max_disappeared, max_distance) is built either with a      *)
(* short patience (Spec) or with the defaults (SpecDefault).                *)

ImageCentres == {<<10, 10>>, <<70, 10>>, <<70, 90>>}

Detections == {Box(c) : c \in ImageCentres}

RECURSIVE SeqsUpTo(_, _)
\* the sequences over S of length at most n
SeqsUpTo(S, n) ==
    IF n = 0 THEN {<<>>}
    ELSE LET shorter == SeqsUpTo(S, n - 1)
         IN  shorter \cup {Append(s, x) : s \in {t \in shorter : Len(t) = n - 1}, x \in S}

Frames == SeqsUpTo(Detections, MaxDets)

\* SimpleTracker.__init__(md, dist)
TrackerInit(md, dist) ==
    /\ max_disappeared = md
    /\ max_distance = dist
    /\ next_id = 1
    /\ tracks = <<>>
    /\ detections = <<>>
    /\ results = <<>>
    /\ unmatched = <<>>

\* no VehicleTrack is in use on its own
TrackIdle ==
    /\ vt = NewVehicleTrack(1)
    /\ route = <<>>
    /\ speed_feed = <<>>
    /\ fed_points = <<>>
    /\ fed_speeds = <<>>
    /\ average = [speeds |-> <<>>, value |-> None]

\* a call on the estimator or its transformer: update(track_id, _, time),
\* cleanup_old_tracks(time, max_age) or calibrate; raised: the call ended in
\* ValueError("Transformer not calibrated"); ok: what calibrate returned
Call(op, track_id, time, max_age, raised, ok) ==
    [op |-> op, track_id |-> track_id, time |-> time, max_age |-> max_age,
     raised |-> raised, ok |-> ok]

\* PerspectiveTransformer.__init__() and SpeedEstimator.__init__(transformer)
EstimatorInit ==
    /\ matrix = None
    /\ inverse_matrix = None
    /\ vehicle_tracks = <<>>
    /\ total_vehicles = 0
    /\ speed_measurements = <<>>
    /\ est_call = Call("init", 0, 0, 0, FALSE, FALSE)
    /\ ret = None
    /\ updates = 0
    /\ accepted = 0
    /\ statistics = None
    /\ mapped = None
    /\ calibration = None
    /\ calibrated = FALSE

Update(dets, cap) ==
    \E r \in {TrackerUpdate(tracks, next_id, dets)} :
        /\ r.next_id <= cap + 1
        /\ tracks' = r.tracks
        /\ next_id' = r.next_id
        /\ detections' = dets
        /\ results' = r.results
        /\ unmatched' = [t \in 1..(r.next_id - 1) |->
                IF \E k \in 1..Len(r.results) : r.results[k][1] = t THEN 0
                ELSE IF t \in DOMAIN tracks THEN unmatched[t] + 1
                ELSE unmatched[t]]
        /\ UNCHANGED <<max_disappeared, max_distance, trackVars, estVars>>

Init == TrackerInit(ShortDisappeared, DefaultMaxDistance) /\ TrackIdle /\ EstimatorInit

Next == \E dets \in Frames : Update(dets, MaxId)

Spec == Init /\ [][Next]_vars

\* the tracker with the default parameters, as SpeedDetectionSystem builds it,
\* fed shorter frames of detections at two centres max_distance apart
FarCentres == {<<10, 10>>, <<70, 90>>}

FramesDefault == SeqsUpTo({Box(c) : c \in FarCentres}, MaxDets - 1)

InitDefault ==
    TrackerInit(DefaultMaxDisappeared, DefaultMaxDistance) /\ TrackIdle /\ EstimatorInit

NextDefault == \E dets \in FramesDefault : Update(dets, MaxId - 1)

SpecDefault == InitDefault /\ [][NextDefault]_vars

-----------------------------------------------------------------------------
(* A VehicleTrack on its own.  Its vehicle goes round a route of at most    *)
(* MaxRoute world positions, one position per second, and add_speed is fed  *)
(* a repeating pair of speeds, so that long runs, which overflow both       *)
(* buffers, stay few.                                                       *)

\* three ground positions 45, 60 and 75 m apart
WorldPoints == {<<0, 0>>, <<45, 0>>, <<45, 60>>}

\* speeds in km/h, among them one that add_speed refuses
SpeedInputs == {FracOfInt(0), FracOfInt(36), FracOfInt(72)}

Routes == SeqsUpTo(WorldPoints, MaxRoute) \ {<<>>}

SpeedFeeds == SpeedInputs \X SpeedInputs

\* the entry of the repeating pattern s that comes after n entries were taken
Cyclic(s, n) == s[(n % Len(s)) + 1]

InitTrack ==
    /\ TrackerInit(DefaultMaxDisappeared, DefaultMaxDistance)
    /\ vt = NewVehicleTrack(1)
    /\ route \in Routes
    /\ speed_feed \in SpeedFeeds
    /\ fed_points = <<>>
    /\ fed_speeds = <<>>
    /\ average = [speeds |-> <<>>, value |-> None]
    /\ EstimatorInit

AddPointStep ==
    /\ Len(fed_points) < MaxPointCalls
    /\ LET w == Cyclic(route, Len(fed_points))
           point == TrackPoint(Len(fed_points), w, w)
       IN  /\ vt' = AddPoint(vt, point)
           /\ fed_points' = Append(fed_points, point)
    /\ UNCHANGED <<route, speed_feed, fed_speeds, average, trackerVars, estVars>>

AddSpeedStep ==
    /\ Len(fed_speeds) < MaxSpeedCalls
    /\ LET speed == Cyclic(speed_feed, Len(fed_speeds))
       IN  /\ vt' = AddSpeed(vt, speed)
           /\ fed_speeds' = Append(fed_speeds, speed)
    /\ UNCHANGED <<route, speed_feed, fed_points, average, trackerVars, estVars>>

NextTrack == AddPointStep \/ AddSpeedStep

SpecTrack == InitTrack /\ [][NextTrack]_vars

-----------------------------------------------------------------------------
(* The smoothing of a VehicleTrack on its own: any speeds, few of them *)

\* speeds in km/h: one that add_speed refuses, three of which the largest is
\* one and a half times the middle one and three times the smallest, and
\* 0.72 and 1.08, which no double holds and of which the second is one and a
\* half times the first
SpeedSamples ==
    {FracOfInt(0), FracOfInt(36), FracOfInt(72), FracOfInt(108), Frac(18, 25), Frac(27, 25)}

InitSmoothing ==
    /\ TrackerInit(DefaultMaxDisappeared, DefaultMaxDistance)
    /\ TrackIdle
    /\ EstimatorInit

AddSpeedAny(speed) ==
    /\ Len(fed_speeds) < MaxSamples
    /\ vt' = AddSpeed(vt, speed)
    /\ fed_speeds' = Append(fed_speeds, speed)
    /\ UNCHANGED <<route, speed_feed, fed_points, average, trackerVars, estVars>>

GetAverageSpeedStep ==
    /\ \E value \in GetAverageSpeed(vt) : average' = [speeds |-> vt.speeds, value |-> value]
    /\ UNCHANGED <<vt, route, speed_feed, fed_points, fed_speeds, trackerVars, estVars>>

NextSmoothing ==
    \/ \E speed \in SpeedSamples : AddSpeedAny(speed)
    \/ GetAverageSpeedStep

SpecSmoothing == InitSmoothing /\ [][NextSmoothing]_vars

-----------------------------------------------------------------------------
(* The estimator on its own: a transformer that is calibrated (or not) with *)
(* the corners of a rectangle, and any update and cleanup calls.            *)

\* the image rectangle with corners (10,10) and (70,90) laid on the ground
\* rectangle with corners (0,0) and (60,80): one pixel is one metre
CalibrationImage == <<(<<10, 10>>), (<<70, 10>>), (<<70, 90>>), (<<10, 90>>)>>
CalibrationWorld == <<(<<0, 0>>), (<<60, 0>>), (<<60, 80>>), (<<0, 80>>)>>

\* a second ground plane for the same image points: 60 px across are 500 m
HighwayWorld == <<(<<0, 0>>), (<<500, 0>>), (<<500, 80>>), (<<0, 80>>)>>

\* the calibrate calls made: a good one, and one a point pair short
Calibrations ==
    {<<CalibrationImage, HighwayWorld>>,
     <<SubSeq(CalibrationImage, 1, 3), SubSeq(HighwayWorld, 1, 3)>>}

CalibrateStep(image_points, world_points) ==
    \E r \in {Calibrate(matrix, inverse_matrix, image_points, world_points)} :
        /\ matrix' = r.matrix
        /\ inverse_matrix' = r.inverse_matrix
        /\ est_call' = Call("calibrate", 0, 0, 0, FALSE, r.ok)
        /\ calibration' = Some(<<image_points, world_points>>)
        /\ calibrated' = (calibrated \/ r.ok)
        /\ statistics' = None
        /\ mapped' = None
        /\ UNCHANGED <<vehicle_tracks, total_vehicles, speed_measurements, ret, updates,
                       accepted, trackerVars, trackVars>>

\* PerspectiveTransformer.image_to_world([point]): raises
\* ValueError("Transformer not calibrated") when matrix is None
ImageToWorldStep(point) ==
    /\ est_call' = Call("image_to_world", 0, 0, 0, matrix = None, FALSE)
    /\ mapped' = IF matrix = None THEN None
                 ELSE Some([point |-> point,
                            value |-> PerspectiveTransformFrac(point, matrix[1])])
    /\ statistics' = None
    /\ calibration' = None
    /\ UNCHANGED <<matrix, inverse_matrix, vehicle_tracks, total_vehicles, speed_measurements,
                   ret, updates, accepted, calibrated, trackerVars, trackVars>>

\* PerspectiveTransformer.world_to_image([point]): raises
\* ValueError("Transformer not calibrated") when inverse_matrix is None
WorldToImageStep(point) ==
    /\ est_call' = Call("world_to_image", 0, 0, 0, inverse_matrix = None, FALSE)
    /\ mapped' = IF inverse_matrix = None THEN None
                 ELSE Some([point |-> point,
                            value |-> PerspectiveTransformFrac(point, inverse_matrix[1])])
    /\ statistics' = None
    /\ calibration' = None
    /\ UNCHANGED <<matrix, inverse_matrix, vehicle_tracks, total_vehicles, speed_measurements,
                   ret, updates, accepted, calibrated, trackerVars, trackVars>>

\* UpdateStep entering the track in the store before it maps the detection
UpdateStepTrackFirst(track_id, detection, timestamp) ==
    IF matrix = None
    THEN /\ est_call' = Call("update", track_id, timestamp, 0, TRUE, FALSE)
         /\ vehicle_tracks' = [t \in DOMAIN vehicle_tracks \cup {track_id} |->
                                  IF t \in DOMAIN vehicle_tracks THEN vehicle_tracks[t]
                                  ELSE NewVehicleTrack(track_id)]
         /\ total_vehicles' = IF track_id \in DOMAIN vehicle_tracks THEN total_vehicles
                              ELSE total_vehicles + 1
         /\ statistics' = None
         /\ mapped' = None
         /\ calibration' = None
         /\ UNCHANGED <<matrix, inverse_matrix, speed_measurements, ret, updates, accepted,
                        calibrated, trackerVars, trackVars>>
    ELSE /\ updates < MaxUpdates
         /\ \E r \in {EstimatorUpdate(vehicle_tracks, total_vehicles, speed_measurements,
                                      matrix[1], track_id, detection, timestamp)} :
                /\ vehicle_tracks' = r.vehicle_tracks
                /\ total_vehicles' = r.total_vehicles
                /\ speed_measurements' = r.speed_measurements
                /\ ret' \in r.returns
                /\ accepted' = IF None \notin r.returns THEN accepted + 1 ELSE accepted
         /\ updates' = updates + 1
         /\ est_call' = Call("update", track_id, timestamp, 0, FALSE, FALSE)
         /\ statistics' = None
         /\ mapped' = None
         /\ calibration' = None
         /\ UNCHANGED <<matrix, inverse_matrix, calibrated, trackerVars, trackVars>>

\* SpeedEstimator.update(track_id, detection, timestamp): image_to_world
\* raises ValueError before anything is changed when matrix is None; at most
\* cap calls return
UpdateWithin(cap, track_id, detection, timestamp) ==
    IF matrix = None
    THEN /\ est_call' = Call("update", track_id, timestamp, 0, TRUE, FALSE)
         /\ statistics' = None
         /\ mapped' = None
         /\ calibration' = None
         /\ UNCHANGED <<matrix, inverse_matrix, vehicle_tracks, total_vehicles,
                        speed_measurements, ret, updates, accepted, calibrated,
                        trackerVars, trackVars>>
    ELSE /\ updates < cap
         /\ \E r \in {EstimatorUpdate(vehicle_tracks, total_vehicles, speed_measurements,
                                      matrix[1], track_id, detection, timestamp)} :
                /\ vehicle_tracks' = r.vehicle_tracks
                /\ total_vehicles' = r.total_vehicles
                /\ speed_measurements' = r.speed_measurements
                /\ ret' \in r.returns
                /\ accepted' = IF None \notin r.returns THEN accepted + 1 ELSE accepted
         /\ updates' = updates + 1
         /\ est_call' = Call("update", track_id, timestamp, 0, FALSE, FALSE)
         /\ statistics' = None
         /\ mapped' = None
         /\ calibration' = None
         /\ UNCHANGED <<matrix, inverse_matrix, calibrated, trackerVars, trackVars>>

UpdateStep(track_id, detection, timestamp) ==
    UpdateWithin(MaxUpdates, track_id, detection, timestamp)

CleanupStep(current_time, max_age) ==
    /\ vehicle_tracks' = CleanupOldTracks(vehicle_tracks, current_time, max_age)
    /\ est_call' = Call("cleanup", 0, current_time, max_age, FALSE, FALSE)
    /\ statistics' = None
    /\ mapped' = None
    /\ calibration' = None
    /\ UNCHANGED <<matrix, inverse_matrix, total_vehicles, speed_measurements, ret, updates,
                   accepted, calibrated,
                   trackerVars, trackVars>>

\* SpeedEstimator.get_statistics()
StatisticsStep ==
    /\ statistics' = Some(GetStatistics(total_vehicles, speed_measurements))
    /\ est_call' = Call("statistics", 0, 0, 0, FALSE, FALSE)
    /\ mapped' = None
    /\ calibration' = None
    /\ UNCHANGED <<matrix, inverse_matrix, vehicle_tracks, total_vehicles, speed_measurements,
                   ret, updates, accepted, calibrated,
                   trackerVars, trackVars>>

InitEstimator ==
    /\ TrackerInit(DefaultMaxDisappeared, DefaultMaxDistance)
    /\ TrackIdle
    /\ EstimatorInit

\* two vehicles seen at two places 500 m apart, at times 1, 9 or 10 s apart
\* (1800, 200 and 180 km/h) that lie around the age limit of
\* cleanup_old_tracks(20, 10)
EstimatorIds == {1, 2}
EstimatorDetections == {Box(<<10, 10>>), Box(<<70, 10>>)}
EstimatorTimes == {1, 10, 11}
CleanupCalls == {<<20, 10>>, <<21, 10>>}

NextEstimator ==
    \/ \E c \in Calibrations : CalibrateStep(c[1], c[2])
    \/ \E track_id \in EstimatorIds, detection \in EstimatorDetections,
          timestamp \in EstimatorTimes : UpdateStep(track_id, detection, timestamp)
    \/ \E c \in CleanupCalls : CleanupStep(c[1], c[2])
    \/ StatisticsStep

SpecEstimator == InitEstimator /\ [][NextEstimator]_vars

-----------------------------------------------------------------------------
(* speed_detection_system.py: SpeedDetectionSystem, whose tracker is built  *)
(* with the defaults of SimpleTracker.  self.speed_estimator is None until  *)
(* a calibrate_perspective call succeeds, and each such call makes a new    *)
(* SpeedEstimator.                                                          *)

DefaultMaxAge == 10

RECURSIVE UpdateAll(_, _, _, _)
\* the loop of process_frame over tracked_objects: speed_estimator.update for
\* each (track_id, detection) pair in turn, on the estimator state est
UpdateAll(est, mat, pairs, timestamp) ==
    IF pairs = <<>> THEN est
    ELSE LET r == EstimatorUpdate(est.vehicle_tracks, est.total_vehicles,
                                  est.speed_measurements, mat,
                                  Head(pairs)[1], Head(pairs)[2], timestamp)
         IN  UpdateAll([vehicle_tracks |-> r.vehicle_tracks,
                        total_vehicles |-> r.total_vehicles,
                        speed_measurements |-> r.speed_measurements,
                        returns |-> r.returns,
                        accepted |-> IF None \notin r.returns
                                     THEN est.accepted + 1 ELSE est.accepted],
                       mat, Tail(pairs), timestamp)

\* process_frame dropping from the store the tracks that the tracker has
\* retired
ProcessFrameReconciling(tr, nid, est, mat, dets, timestamp) ==
    LET tracked == TrackerUpdate(tr, nid, dets)
        updated == UpdateAll(est, mat, tracked.results, timestamp)
        live == [updated EXCEPT !.vehicle_tracks =
                    [t \in DOMAIN @ \cap DOMAIN tracked.tracks |-> @[t]]]
    IN  [tracks |-> tracked.tracks, next_id |-> tracked.next_id, results |-> tracked.results,
         est |-> IF timestamp % 10 = 0
                 THEN [live EXCEPT !.vehicle_tracks =
                                      CleanupOldTracks(@, timestamp, DefaultMaxAge)]
                 ELSE live]

\* SpeedDetectionSystem.process_frame(frame, timestamp) of a calibrated
\* system, dets being what the detector finds in the frame: tracker.update,
\* speed_estimator.update for every pair, and cleanup_old_tracks(timestamp)
\* when int(timestamp) % 10 == 0
ProcessFrame(tr, nid, est, mat, dets, timestamp) ==
    LET tracked == TrackerUpdate(tr, nid, dets)
        updated == UpdateAll(est, mat, tracked.results, timestamp)
    IN  [tracks |-> tracked.tracks, next_id |-> tracked.next_id, results |-> tracked.results,
         est |-> IF timestamp % 10 = 0
                 THEN [updated EXCEPT !.vehicle_tracks =
                                         CleanupOldTracks(@, timestamp, DefaultMaxAge)]
                 ELSE updated]

\* SpeedDetectionSystem.calibrate_perspective(image_points, world_points)
CalibratePerspectiveStep(image_points, world_points) ==
    \E r \in {Calibrate(matrix, inverse_matrix, image_points, world_points)} :
        /\ matrix' = r.matrix
        /\ inverse_matrix' = r.inverse_matrix
        /\ est_call' = Call("calibrate", 0, 0, 0, FALSE, r.ok)
        /\ calibration' = Some(<<image_points, world_points>>)
        /\ calibrated' = (calibrated \/ r.ok)
        /\ vehicle_tracks' = IF r.ok THEN <<>> ELSE vehicle_tracks
        /\ total_vehicles' = IF r.ok THEN 0 ELSE total_vehicles
        /\ speed_measurements' = IF r.ok THEN <<>> ELSE speed_measurements
        /\ accepted' = IF r.ok THEN 0 ELSE accepted
        /\ statistics' = None
        /\ mapped' = None
        /\ UNCHANGED <<ret, updates, trackerVars, trackVars>>

\* process_frame: raises ValueError("System not calibrated...") before
\* anything is changed while speed_estimator is None
ProcessFrameStep(dets, timestamp) ==
    IF ~calibrated
    THEN /\ est_call' = Call("frame", 0, timestamp, 0, TRUE, FALSE)
         /\ statistics' = None
         /\ mapped' = None
         /\ calibration' = None
         /\ UNCHANGED <<matrix, inverse_matrix, vehicle_tracks, total_vehicles,
                        speed_measurements, ret, updates, accepted, calibrated,
                        trackerVars, trackVars>>
    ELSE /\ updates + Len(dets) <= MaxFrameUpdates
         /\ \E r \in {ProcessFrame(tracks, next_id,
                                   [vehicle_tracks |-> vehicle_tracks,
                                    total_vehicles |-> total_vehicles,
                                    speed_measurements |-> speed_measurements,
                                    returns |-> {ret}, accepted |-> accepted],
                                   matrix[1], dets, timestamp)} :
                /\ r.next_id <= MaxId + 1
                /\ tracks' = r.tracks
                /\ next_id' = r.next_id
                /\ results' = r.results
                /\ unmatched' = [t \in 1..(r.next_id - 1) |->
                        IF \E k \in 1..Len(r.results) : r.results[k][1] = t THEN 0
                        ELSE IF t \in DOMAIN tracks THEN unmatched[t] + 1
                        ELSE unmatched[t]]
                /\ vehicle_tracks' = r.est.vehicle_tracks
                /\ total_vehicles' = r.est.total_vehicles
                /\ speed_measurements' = r.est.speed_measurements
                /\ ret' \in r.est.returns
                /\ accepted' = r.est.accepted
         /\ detections' = dets
         /\ updates' = updates + Len(dets)
         /\ est_call' = Call("frame", 0, timestamp, 0, FALSE, FALSE)
         /\ statistics' = None
         /\ mapped' = None
         /\ calibration' = None
         /\ UNCHANGED <<matrix, inverse_matrix, calibrated, max_disappeared, max_distance,
                        trackVars>>

InitPipeline ==
    /\ TrackerInit(DefaultMaxDisappeared, DefaultMaxDistance)
    /\ TrackIdle
    /\ EstimatorInit

\* frames of no, one or two vehicles at two places 60 px apart, stamped with
\* a time at which the cleanup is called (20 s) or not (9 s)
PipelineFrames == {<<>>, <<Box(<<10, 10>>)>>, <<Box(<<10, 10>>), Box(<<70, 10>>)>>}
PipelineTimes == {9, 20}

NextPipeline ==
    \/ CalibratePerspectiveStep(CalibrationImage, CalibrationWorld)
    \/ \E dets \in PipelineFrames, timestamp \in PipelineTimes :
          ProcessFrameStep(dets, timestamp)

SpecPipeline == InitPipeline /\ [][NextPipeline]_vars

\* main.py, for a video of one frame per second: calibrate_perspective once,
\* main returning when it fails, then the loop: frame_count += 1 and
\* process_frame(frame, frame_count / fps).  frame_count is the number of
\* frames read so far: with fps = 1 the timestamp of the last process_frame
\* call, 0 before the first.
frame_count == est_call.time

\* what the detector finds in a frame: nothing, one vehicle, or two vehicles
\* 60 px apart
MainFrames == PipelineFrames

MainCalibrateStep ==
    /\ ~calibrated
    /\ est_call.op # "calibrate"
    /\ \E c \in Calibrations : CalibratePerspectiveStep(c[1], c[2])

MainFrameStep(dets) ==
    /\ calibrated
    /\ frame_count < MaxFrames
    /\ ProcessFrameStep(dets, frame_count + 1)

NextMain ==
    \/ MainCalibrateStep
    \/ \E dets \in MainFrames : MainFrameStep(dets)

SpecMain == InitPipeline /\ [][NextMain]_vars

\* the loop goes on for as long as the video has frames
SpecMainLive == SpecMain /\ WF_vars(\E dets \in MainFrames : MainFrameStep(dets))

\* config.py: the calibration of the shipped configuration
IMAGE_POINTS == <<(<<800, 410>>), (<<1125, 410>>), (<<1920, 850>>), (<<0, 850>>)>>
WORLD_POINTS == <<(<<0, 0>>), (<<32, 0>>), (<<32, 140>>), (<<0, 140>>)>>

\* the calibrate calls made on the transformer: the configuration's, one with
\* three pairs, and one with four image points for three world points
TransformerCalibrations ==
    {<<IMAGE_POINTS, WORLD_POINTS>>,
     <<SubSeq(IMAGE_POINTS, 1, 3), SubSeq(WORLD_POINTS, 1, 3)>>,
     <<IMAGE_POINTS, SubSeq(WORLD_POINTS, 1, 3)>>}

\* the points mapped: the calibration corners and points inside the road
ImageProbes == Range(IMAGE_POINTS) \cup {<<1460, 630>>, <<960, 540>>}
WorldProbes == Range(WORLD_POINTS) \cup {<<16, 70>>}
TransformerDetections == {Box(<<800, 410>>), Box(<<1125, 410>>)}

NextTransformer ==
    \/ \E c \in TransformerCalibrations : CalibrateStep(c[1], c[2])
    \/ \E point \in ImageProbes : ImageToWorldStep(point)
    \/ \E point \in WorldProbes : WorldToImageStep(point)
    \/ \E detection \in TransformerDetections : UpdateStep(1, detection, 1)

SpecTransformer == InitEstimator /\ [][NextTransformer]_vars

\* a long run: one vehicle seen every 10 s, by turns at two places 500 m
\* apart (180 km/h), with cleanup_old_tracks(., 10) called 10 or 11 s after
\* the last update and get_statistics called at any time
LongDetection == IF updates % 2 = 0 THEN Box(<<10, 10>>) ELSE Box(<<70, 10>>)
LongTime == 10 * (updates + 1)
CleanupDelays == {10, 11}

NextLong ==
    \/ CalibrateStep(CalibrationImage, HighwayWorld)
    \/ UpdateWithin(MaxLongUpdates, 1, LongDetection, LongTime)
    \/ \E d \in CleanupDelays : CleanupStep(10 * updates + d, DefaultMaxAge)
    \/ StatisticsStep

SpecLong == InitEstimator /\ [][NextLong]_vars

\* a vehicle of changing pace: one vehicle seen by turns at two places 500 m
\* apart, each time 0, 10 or 90 s after it was last seen
PaceDelays == {0, 10, 90}
PacedTime(delay) ==
    IF 1 \in DOMAIN vehicle_tracks THEN vehicle_tracks[1].last_update + delay ELSE delay

NextPaced ==
    \/ CalibrateStep(CalibrationImage, HighwayWorld)
    \/ \E delay \in PaceDelays :
          UpdateWithin(MaxPacedUpdates, 1, LongDetection, PacedTime(delay))

SpecPaced == InitEstimator /\ [][NextPaced]_vars

\* one vehicle seen once a second, from time 0 on, at any of four places 10 m
\* apart on a line
ScenarioDetections == {Box(<<10, 10>>), Box(<<20, 10>>), Box(<<30, 10>>), Box(<<40, 10>>)}

NextScenario ==
    \/ CalibrateStep(CalibrationImage, CalibrationWorld)
    \/ \E detection \in ScenarioDetections : UpdateStep(1, detection, updates)

SpecScenario == InitEstimator /\ [][NextScenario]_vars

-----------------------------------------------------------------------------
(* Claims about SimpleTracker *)

\* the number of entries of the sequence s that satisfy nothing but s[k] = x
Count(s, x) == Cardinality({k \in 1..Len(s) : s[k] = x})

ResultIds == [k \in 1..Len(results) |-> results[k][1]]
ResultDetections == [k \in 1..Len(results) |-> results[k][2]]

\* C1: the list returned by SimpleTracker.update holds every detection of the
\* input exactly once (as often as the input holds it), each paired with a
\* track id, so it is as long as the input.
C1_EveryDetectionOnce ==
    /\ Len(results) = Len(detections)
    /\ \A d \in Range(detections) \cup Range(ResultDetections) :
           Count(ResultDetections, d) = Count(detections, d)
    /\ \A k \in 1..Len(results) : results[k][1] \in 1..(next_id - 1)

\* a frame of two equal detections met a registry of one track: one detection
\* was committed to it, the other created a track
C1_Witness ==
    /\ Len(detections) = 2
    /\ detections[1] = detections[2]
    /\ Len(results) = 2
    /\ results[1][1] < results[2][1]
    /\ results[2][1] = next_id - 1
    /\ unmatched[results[1][1]] = 0
    /\ \E t \in DOMAIN tracks : tracks[t].disappeared > 0

\* the ids the step's update call created, in the order of the returned list
CreatedIds == SelectSeq(ResultIds', LAMBDA t : t \notin DOMAIN tracks)

\* C2: ids are handed out as 1, 2, 3, ... in the order of creation, and an id
\* that has left the registry never enters it again.
C2_IdsIncreaseNeverReused ==
    /\ next_id = 1
    /\ [][/\ CreatedIds = [k \in 1..(next_id' - next_id) |-> next_id + k - 1]
          /\ \A t \in 1..(next_id - 1) : t \notin DOMAIN tracks => t \notin DOMAIN tracks'
          /\ DOMAIN tracks' \subseteq 1..(next_id' - 1)]_vars

\* id 1 has left the registry and a later id has been created since
C2_Witness ==
    /\ next_id > 2
    /\ 1 \notin DOMAIN tracks
    /\ (next_id - 1) \in DOMAIN tracks
    /\ \E k \in 1..Len(results) : results[k][1] = next_id - 1

\* C3: a track that has gone k update calls without being paired with a
\* detection has disappeared = k as long as k <= max_disappeared, and it is
\* out of the registry exactly from the call that takes k past max_disappeared;
\* an update with no detections returns nothing and allocates no id.
C3_DisappearedCounts ==
    /\ [](\A t \in 1..(next_id - 1) :
            IF t \in DOMAIN tracks
            THEN tracks[t].disappeared = unmatched[t] /\ unmatched[t] <= max_disappeared
            ELSE unmatched[t] = max_disappeared + 1)
    /\ [][detections' = <<>> => results' = <<>> /\ next_id' = next_id]_vars

\* with the default max_disappeared = 30: track 1 went at its 31st unmatched
\* frame, a frame whose detection was committed to track 2
C3_Witness ==
    /\ max_disappeared = DefaultMaxDisappeared
    /\ Len(results) = 1
    /\ results[1][1] = 2
    /\ 1 \notin DOMAIN tracks
    /\ unmatched[1] = DefaultMaxDisappeared + 1

-----------------------------------------------------------------------------
(* Claims about VehicleTrack *)

\* the last n entries of s (all of s when it is shorter)
LastN(s, n) == IF Len(s) <= n THEN s ELSE SubSeq(s, Len(s) - n + 1, Len(s))

\* C4: points never holds more than 30 entries and speeds never more than 10,
\* and each buffer holds, in insertion order, the most recent 30 points (10
\* positive speeds) appended to it: a full buffer drops its oldest entry.
C4_BoundedFifoBuffers ==
    /\ Len(vt.points) <= 30
    /\ Len(vt.speeds) <= 10
    /\ vt.points = LastN(fed_points, 30)
    /\ vt.speeds = LastN(SelectSeq(fed_speeds, LAMBDA v : v[1] > 0), 10)

\* both buffers have overflowed, and their entries are not all alike
C4_Witness ==
    /\ Len(fed_points) > 30
    /\ Len(vt.points) = 30
    /\ vt.points[1].world_pos # vt.points[2].world_pos
    /\ Len(SelectSeq(fed_speeds, LAMBDA v : v[1] > 0)) > 10
    /\ Len(vt.speeds) = 10
    /\ vt.speeds[1] # vt.speeds[2]

\* the length of the path through the world positions of the first n points of s
RECURSIVE PathLength(_, _)
PathLength(s, n) ==
    IF n < 2 THEN 0
    ELSE PathLength(s, n - 1) + Distance(s[n - 1].world_pos, s[n].world_pos)

\* C10: total_distance is never negative and never decreases, and it is the
\* sum, over every point appended after the first, of the distance from the
\* point appended just before it, also once the buffer of 30 has overflowed.
C10_TotalDistanceMonotone ==
    /\ [](vt.total_distance >= 0 /\ vt.total_distance = PathLength(fed_points, Len(fed_points)))
    /\ [][vt.total_distance' >= vt.total_distance]_vars

\* the buffer has overflowed and the vehicle moved both before and after
C10_Witness ==
    /\ Len(fed_points) > 31
    /\ Len(route) = 2
    /\ route[1] # route[2]
    /\ vt.total_distance > 31 * 45

\* the entry of s that r entries of s, counted with repetition, come before
Ranked(s, r) ==
    CHOOSE x \in Range(s) :
        /\ Cardinality({k \in 1..Len(s) : FracLess(s[k], x)}) <= r
        /\ Cardinality({k \in 1..Len(s) : FracLeq(s[k], x)}) > r

\* the median of the samples s: the mean of the two entries in the middle of
\* the order (one and the same entry when Len(s) is odd)
MiddleValue(s) ==
    FracDivInt(FracAdd(Ranked(s, (Len(s) - 1) \div 2), Ranked(s, Len(s) \div 2)), 2)

\* how far v is from m, doubled, and m itself: v deviates from m by less than
\* (at most) 50% of m when the first is less than (at most) the second
TwiceDeviation(v, m) == FracAdd(FracAbs(FracSub(v, m)), FracAbs(FracSub(v, m)))

\* C7 as claimed: with at least 3 samples the smoothed speed is the mean of
\* the samples that deviate from the median by at most 50% of it (a sample
\* at exactly 50% is kept); with fewer it is the mean of all samples.
C7_AsClaimed ==
    LET s == average.speeds
        kept == SelectSeq(s, LAMBDA v : FracLeq(TwiceDeviation(v, MiddleValue(s)), MiddleValue(s)))
    IN  /\ Len(s) >= 3 => average.value = Some(Mean(kept))
        /\ Len(s) \in {1, 2} => average.value = Some(Mean(s))

\* C7, amended: with at least 3 samples the smoothed speed is the mean of the
\* samples whose deviation from the median is below 50% of it in the double
\* arithmetic of the comparison, or the mean of all samples when no sample
\* is: a sample that deviates by less than 50% is kept and one that deviates
\* by more is dropped; a sample at exactly 50% is dropped when the samples
\* are held exactly (72, 72, 108 gives 72), and is kept or dropped as the
\* rounding falls when they are not (0.72, 0.72, 1.08).  With fewer than 3
\* samples it is the mean of all samples.
C7_StrictMedianFilter ==
    LET s == average.speeds
        m == MiddleValue(s)
        inside == {k \in 1..Len(s) : FracLess(TwiceDeviation(s[k], m), m)}
        within == {k \in 1..Len(s) : FracLeq(TwiceDeviation(s[k], m), m)}
        MeanOf(keep) == IF keep = {} THEN Some(Mean(s)) ELSE Some(Mean(Pick(s, keep)))
    IN  /\ Len(s) >= 3 =>
               \E keep \in SUBSET within : inside \subseteq keep /\ average.value = MeanOf(keep)
        /\ Len(s) >= 3 /\ (\A k \in 1..Len(s) : ExactSample(s[k])) =>
               average.value = MeanOf(inside)
        /\ Len(s) \in {1, 2} => average.value = Some(Mean(s))

\* get_average_speed was called on 72, 72, 108, whose last sample is exactly
\* 50% above the median, and returned 72
C7_Witness ==
    /\ average.speeds = <<FracOfInt(72), FracOfInt(72), FracOfInt(108)>>
    /\ average.value = Some(FracOfInt(72))

-----------------------------------------------------------------------------
(* Claims about SpeedEstimator *)

\* v km/h lies strictly between 0 and 200
InOpenRange(v) == 0 < v[1] /\ v[1] < 200 * v[2]

\* <<timestamp, world position>> of every buffered point of a track
Trajectory(track) ==
    [k \in 1..Len(track.points) |-> <<track.points[k].timestamp, track.points[k].world_pos>>]

\* C5: every speed in a track's speeds buffer and every speed in the global
\* log is strictly above 0 and strictly below 200 km/h.
C5_StoredSpeedsInRange ==
    /\ \A t \in DOMAIN vehicle_tracks : \A k \in 1..Len(vehicle_tracks[t].speeds) :
           InOpenRange(vehicle_tracks[t].speeds[k])
    /\ \A k \in 1..Len(speed_measurements) : InOpenRange(speed_measurements[k])

\* a track stored 180 km/h (500 m in 10 s) at its third point and nothing at
\* its fourth, whose window holds 500 m in 9 s: exactly 200 km/h
C5_Witness ==
    /\ est_call.op = "update" /\ est_call.track_id = 1 /\ ~est_call.raised
    /\ 1 \in DOMAIN vehicle_tracks
    /\ Trajectory(vehicle_tracks[1]) =
           <<(<<1, <<0, 0>> >>), (<<11, <<500, 0>> >>), (<<1, <<0, 0>> >>), (<<10, <<500, 0>> >>)>>
    /\ vehicle_tracks[1].speeds = <<FracOfInt(180)>>
    /\ speed_measurements = <<FracOfInt(180)>>
    /\ ret = None

\* C6 as claimed: cleanup_old_tracks(20, 10) removes every track whose
\* last_update is <= 10, one at exactly 10 included, and keeps the others.
C6_AsClaimed ==
    [][est_call'.op = "cleanup" /\ est_call'.time = 20 /\ est_call'.max_age = 10
       => DOMAIN vehicle_tracks' =
              {t \in DOMAIN vehicle_tracks : vehicle_tracks[t].last_update > 10}]_vars

\* C6, amended: cleanup_old_tracks(20, 10) removes every track whose
\* last_update is below 10 and keeps, unchanged, every track whose last_update
\* is 10 or more: a track last updated at exactly 10 stays.
C6_CleanupRemovesOlderThanLimit ==
    [][est_call'.op = "cleanup" /\ est_call'.time = 20 /\ est_call'.max_age = 10
       => /\ DOMAIN vehicle_tracks' =
                 {t \in DOMAIN vehicle_tracks : vehicle_tracks[t].last_update >= 10}
          /\ \A t \in DOMAIN vehicle_tracks' : vehicle_tracks'[t] = vehicle_tracks[t]]_vars

\* cleanup_old_tracks(20, 10) has just run on two tracks: the one last updated
\* at 1 is gone, the one last updated at exactly 10 is still there
C6_Witness ==
    /\ est_call.op = "cleanup" /\ est_call.time = 20 /\ est_call.max_age = 10
    /\ total_vehicles = 2
    /\ updates = 2
    /\ \E t \in EstimatorIds :
           /\ DOMAIN vehicle_tracks = {t}
           /\ vehicle_tracks[t].last_update = 10

\* the time of the step from point p to point q when it is positive, else 0,
\* and the ground distance of the same step
PositiveTime(p, q) == IF q.timestamp > p.timestamp THEN q.timestamp - p.timestamp ELSE 0
DistanceInPositiveTime(p, q) ==
    IF q.timestamp > p.timestamp THEN Distance(p.world_pos, q.world_pos) ELSE 0

\* the distance and the time over the last three points of pts, counting the
\* steps that take a positive time
WindowDistance(pts) ==
    DistanceInPositiveTime(pts[Len(pts) - 2], pts[Len(pts) - 1]) +
    DistanceInPositiveTime(pts[Len(pts) - 1], pts[Len(pts)])
WindowTime(pts) ==
    PositiveTime(pts[Len(pts) - 2], pts[Len(pts) - 1]) +
    PositiveTime(pts[Len(pts) - 1], pts[Len(pts)])

\* an instantaneous speed is accepted for the points pts: there are at least
\* min_track_points = 3 of them, the positive time is above 0 and the speed
\* distance / time * 3.6 lies in (0, 200)
Accepted(pts) ==
    /\ Len(pts) >= 3
    /\ WindowTime(pts) > 0
    /\ 0 < WindowDistance(pts) * 36
    /\ WindowDistance(pts) * 36 < 200 * 10 * WindowTime(pts)

\* C8: SpeedEstimator.update returns a speed exactly when an instantaneous
\* speed was accepted in that call; then exactly that one sample is appended to
\* the track's speeds buffer and to the global log; otherwise it returns None
\* and neither changes.
C8_ReturnsIffAccepted ==
    [][est_call'.op = "update" /\ ~est_call'.raised =>
        LET t == est_call'.track_id
            pts == vehicle_tracks'[t].points
            before == IF t \in DOMAIN vehicle_tracks THEN vehicle_tracks[t].speeds ELSE <<>>
            speed == Frac(WindowDistance(pts) * 36, WindowTime(pts) * 10)
        IN  /\ ret' # None <=> Accepted(pts)
            /\ Accepted(pts) =>
                  /\ vehicle_tracks'[t].speeds = LastN(Append(before, speed), 10)
                  /\ speed_measurements' = Append(speed_measurements, speed)
            /\ ~Accepted(pts) =>
                  /\ vehicle_tracks'[t].speeds = before
                  /\ speed_measurements' = speed_measurements]_vars

\* an update has returned a speed after appending a second sample to the
\* track's buffer, and the window held a step that took no time
C8_Witness ==
    /\ est_call.op = "update" /\ ~est_call.raised
    /\ ret # None
    /\ Len(vehicle_tracks[est_call.track_id].speeds) = 2
    /\ Len(speed_measurements) = 2
    /\ LET pts == vehicle_tracks[est_call.track_id].points
       IN  pts[Len(pts)].timestamp = pts[Len(pts) - 1].timestamp

\* the speed in km/h of the single step from point p to point q when it lies
\* in (0, 200), else nothing
StepSpeed(p, q) ==
    LET speed == Frac(Distance(p.world_pos, q.world_pos) * 36,
                      (q.timestamp - p.timestamp) * 10)
    IN  IF InOpenRange(speed) THEN Some(speed) ELSE None

\* C19: a step of the window whose time delta is zero or negative adds
\* neither its distance nor its time: with one such step among the two of the
\* window the call's speed is that of the other step alone; with both steps
\* such the call returns None and stores nothing; a returned speed is never
\* negative and never has a zero time under it.
C19_NonPositiveStepsIgnored ==
    [][est_call'.op = "update" /\ ~est_call'.raised
       /\ Len(vehicle_tracks'[est_call'.track_id].points) >= 3 =>
        LET t == est_call'.track_id
            pts == vehicle_tracks'[t].points
            a == pts[Len(pts) - 2]
            b == pts[Len(pts) - 1]
            c == pts[Len(pts)]
        IN  /\ b.timestamp <= a.timestamp /\ c.timestamp <= b.timestamp =>
                  /\ ret' = None
                  /\ vehicle_tracks'[t].speeds = vehicle_tracks[t].speeds
                  /\ speed_measurements' = speed_measurements
            /\ b.timestamp <= a.timestamp /\ c.timestamp > b.timestamp =>
                  ret' = StepSpeed(b, c)
            /\ b.timestamp > a.timestamp /\ c.timestamp <= b.timestamp =>
                  ret' = StepSpeed(a, b)
            /\ ret' # None => ret'[1][1] > 0 /\ ret'[1][2] > 0]_vars

\* an update has returned 180 km/h, the speed of its last step of 500 m in
\* 10 s alone: the step before it went 9 s back in time
C19_Witness ==
    /\ est_call.op = "update" /\ ~est_call.raised
    /\ ret = Some(FracOfInt(180))
    /\ LET pts == vehicle_tracks[est_call.track_id].points
       IN  /\ Len(pts) >= 3
           /\ pts[Len(pts) - 1].timestamp = pts[Len(pts) - 2].timestamp - 9
           /\ pts[Len(pts)].timestamp = pts[Len(pts) - 1].timestamp + 10

\* sequence s is the beginning of sequence t
IsPrefix(s, t) == Len(s) <= Len(t) /\ SubSeq(t, 1, Len(s)) = s

\* C20: the global log only grows, by appending: its length is the number of
\* speeds accepted since construction and is what get_statistics reports as
\* measurements, whatever cleanup_old_tracks removed and whatever a track's
\* 10-entry speeds buffer dropped; cleanup_old_tracks changes neither the log
\* nor total_vehicles nor any track it keeps.
C20_LogAppendOnly ==
    [][/\ IsPrefix(speed_measurements, speed_measurements')
       /\ Len(speed_measurements') = accepted'
       /\ est_call'.op = "statistics" => statistics'[1].measurements = accepted
       /\ est_call'.op = "cleanup" =>
              /\ speed_measurements' = speed_measurements
              /\ total_vehicles' = total_vehicles
              /\ \A t \in DOMAIN vehicle_tracks' : vehicle_tracks'[t] = vehicle_tracks[t]]_vars

\* get_statistics has reported 11 measurements of a single vehicle, one more
\* than its speeds buffer could hold, after cleanup_old_tracks removed it
C20_Witness ==
    /\ est_call.op = "statistics"
    /\ statistics # None
    /\ statistics[1].measurements = 11
    /\ statistics[1].total_vehicles = 1
    /\ accepted = 11
    /\ DOMAIN vehicle_tracks = {}

\* the track ids passed so far to an update call that returned, in the long
\* run of one vehicle: id 1, once there was such a call
PassedIds == IF updates > 0 THEN {1} ELSE {}

\* C23: after any update and cleanup_old_tracks calls total_vehicles is the
\* number of distinct track ids ever passed to update, an id counting once
\* even when its VehicleTrack was removed by cleanup and the id is updated
\* again.
C23_CountsDistinctIds ==
    total_vehicles = Cardinality(PassedIds)

\* the median filter of get_average_speed leaves none of the samples sp: there
\* are at least 3 and each is more than half the median away from the median
AllRejected(sp) ==
    /\ Len(sp) >= 3
    /\ \A k \in 1..Len(sp) :
           FracLess(FracDivInt(Median(sp), 2), FracAbs(FracSub(sp[k], Median(sp))))

\* C24: an update that accepts a speed returns a smoothed speed that lies
\* between the smallest and the largest sample of the track's speeds buffer,
\* hence strictly between 0 and 200; when the median filter rejects every
\* sample the mean of all the samples is returned, not nothing.
C24_SmoothedWithinSamples ==
    [][est_call'.op = "update" /\ ~est_call'.raised
       /\ Len(speed_measurements') > Len(speed_measurements) =>
        \E sp \in {vehicle_tracks'[est_call'.track_id].speeds} :
            /\ ret' # None
            /\ FracLeq(FracMin(sp), ret'[1])
            /\ FracLeq(ret'[1], FracMax(sp))
            /\ InOpenRange(ret'[1])
            /\ AllRejected(sp) => ret' = Some(Mean(sp))]_vars

\* the samples 36, 36, 180, 180 km/h have median 108 and all lie 72 away
\* from it, more than 54: the update returned their mean, 108 km/h
C24_Witness ==
    /\ est_call.op = "update" /\ ~est_call.raised
    /\ 1 \in DOMAIN vehicle_tracks
    /\ vehicle_tracks[1].speeds =
           <<FracOfInt(36), FracOfInt(36), FracOfInt(180), FracOfInt(180)>>
    /\ AllRejected(vehicle_tracks[1].speeds)
    /\ ret = Some(FracOfInt(108))

\* C9: a track fed the ground positions (0,0), (10,0), (20,0), (30,0) at the
\* times 0, 1, 2, 3 gets None from its first two updates and, at the fourth,
\* the instantaneous speed 20 m / 2 s = 36 km/h, which is stored; that speed
\* comes from the last 3 points alone, whatever the first point was.
C9_ScenarioC ==
    LET tail == <<(<<1, <<10, 0>> >>), (<<2, <<20, 0>> >>), (<<3, <<30, 0>> >>)>>
    IN  est_call.op = "update" /\ ~est_call.raised =>
        LET track == vehicle_tracks[1]
        IN  /\ track.frames_tracked <= 2 => ret = None /\ track.speeds = <<>>
            /\ track.frames_tracked = 4 /\ SubSeq(Trajectory(track), 2, 4) = tail =>
                  /\ ret # None
                  /\ speed_measurements[Len(speed_measurements)] = FracOfInt(36)
                  /\ track.speeds[Len(track.speeds)] = FracOfInt(36)
            /\ Trajectory(track) = <<(<<0, <<0, 0>> >>)>> \o tail =>
                  /\ ret = Some(FracOfInt(36))
                  /\ track.speeds = <<FracOfInt(36), FracOfInt(36)>>
                  /\ speed_measurements = <<FracOfInt(36), FracOfInt(36)>>

\* the fourth update of the scenario has returned
C9_Witness ==
    /\ est_call.op = "update" /\ ~est_call.raised
    /\ 1 \in DOMAIN vehicle_tracks
    /\ Trajectory(vehicle_tracks[1]) =
           <<(<<0, <<0, 0>> >>), (<<1, <<10, 0>> >>), (<<2, <<20, 0>> >>), (<<3, <<30, 0>> >>)>>

\* C11: get_statistics() on an empty measurement log returns measurement count
\* 0 and None for mean, max, min and standard deviation, together with the
\* current total_vehicles counter, also after tracks were created and cleaned up.
C11_StatisticsOfEmptyLog ==
    est_call.op = "statistics" /\ speed_measurements = <<>> =>
        /\ statistics # None
        /\ statistics[1].total_vehicles = total_vehicles
        /\ statistics[1].measurements = 0
        /\ statistics[1].average_speed = None
        /\ statistics[1].max_speed = None
        /\ statistics[1].min_speed = None
        /\ statistics[1].std_speed = None

\* get_statistics() was called with an empty log after two tracks had been
\* created and both had been cleaned up
C11_Witness ==
    /\ est_call.op = "statistics"
    /\ speed_measurements = <<>>
    /\ total_vehicles = 2
    /\ vehicle_tracks = <<>>
    /\ statistics # None

-----------------------------------------------------------------------------
(* Claims about PerspectiveTransformer *)

MappingOps == {"image_to_world", "world_to_image"}

\* C12: a coordinate mapping requested before any successful calibration
\* raises "not calibrated", and so does SpeedEstimator.update, which then
\* leaves vehicle_tracks, total_vehicles and speed_measurements as they were.
C12_NotCalibratedRaises ==
    [][/\ ~calibrated /\ est_call'.op \in MappingOps \cup {"update"} => est_call'.raised
       /\ est_call'.raised =>
             /\ mapped' = None
             /\ vehicle_tracks' = vehicle_tracks
             /\ total_vehicles' = total_vehicles
             /\ speed_measurements' = speed_measurements]_vars

\* an update has raised on a transformer that was never calibrated: nothing
\* is stored
C12_Witness ==
    /\ est_call.op = "update" /\ est_call.raised
    /\ ~calibrated
    /\ matrix = None
    /\ vehicle_tracks = <<>>
    /\ total_vehicles = 0
    /\ speed_measurements = <<>>

\* the arguments of a calibrate call differ in length or are fewer than 4
BadCalibration(c) == Len(c[1][1]) # Len(c[1][2]) \/ Len(c[1][1]) < 4

\* C13 as claimed: a calibrate call whose point sequences differ in length or
\* have fewer than 4 entries returns false, and right after it image_to_world
\* and world_to_image raise "not calibrated", also when an earlier calibrate
\* succeeded.
C13_AsClaimed ==
    [][est_call.op = "calibrate" /\ BadCalibration(calibration) =>
         /\ ~est_call.ok
         /\ est_call'.op \in MappingOps => est_call'.raised]_vars

\* C13, amended: a calibrate call whose point sequences differ in length or
\* have fewer than 4 entries returns false and leaves both matrices as they
\* were: right after it image_to_world and world_to_image raise "not
\* calibrated" exactly when no earlier calibrate succeeded.
C13_FailedCalibrateKeepsMatrices ==
    [][/\ est_call'.op = "calibrate" /\ BadCalibration(calibration') =>
             /\ ~est_call'.ok
             /\ matrix' = matrix
             /\ inverse_matrix' = inverse_matrix
       /\ est_call.op = "calibrate" /\ BadCalibration(calibration)
             /\ est_call'.op \in MappingOps =>
             (est_call'.raised <=> ~calibrated)]_vars

\* a calibrate call with three pairs has returned false on a transformer
\* that an earlier call calibrated: it still holds both matrices
C13_Witness ==
    /\ est_call.op = "calibrate" /\ ~est_call.ok
    /\ calibration = Some(<<SubSeq(IMAGE_POINTS, 1, 3), SubSeq(WORLD_POINTS, 1, 3)>>)
    /\ calibrated
    /\ matrix # None
    /\ inverse_matrix # None

\* the point v, a pair of fractions, is within tol of (x, y) on each axis
Near(v, x, y, tol) ==
    /\ FracLeq(FracAbs(FracSub(v[1], x)), tol)
    /\ FracLeq(FracAbs(FracSub(v[2], y)), tol)

\* C15 as claimed: with the calibration (800,410)->(0,0), (1125,410)->(32,0),
\* (1920,850)->(32,140), (0,850)->(0,140), image_to_world maps (1460,630) to
\* within 1 m on each axis of (16,70).
C15_AsClaimed ==
    est_call.op = "image_to_world" /\ mapped # None /\ mapped[1].point = <<1460, 630>> =>
        Near(mapped[1].value, FracOfInt(16), FracOfInt(70), FracOfInt(1))

\* C15, amended: with that calibration image_to_world maps (1460,630) to
\* within 1 m on each axis of (30.2, 119.7), and each image corner to its
\* ground corner.
C15_ScenarioA ==
    est_call.op = "image_to_world" /\ mapped # None =>
        /\ mapped[1].point = <<1460, 630>> =>
              Near(mapped[1].value, Frac(302, 10), Frac(1197, 10), FracOfInt(1))
        /\ \A k \in 1..4 : mapped[1].point = IMAGE_POINTS[k] =>
              mapped[1].value = <<FracOfInt(WORLD_POINTS[k][1]), FracOfInt(WORLD_POINTS[k][2])>>

\* image_to_world has mapped (1460,630) to (13568/449, 53760/449)
C15_Witness ==
    /\ est_call.op = "image_to_world"
    /\ mapped = Some([point |-> <<1460, 630>>,
                      value |-> <<(<<13568, 449>>), (<<53760, 449>>)>>])

-----------------------------------------------------------------------------
(* Claims about the greedy association *)

\* the ids of the registry tr in registry order, and the squared distance of
\* the track at position p[1] to detection p[2] of dets, for every pair p
Position(tr) == SetToSortedSeq(DOMAIN tr)
Gaps(tr, dets) ==
    LET ids == Position(tr)
    IN  [p \in (1..Len(ids)) \X (1..Len(dets)) |->
            LET c == tr[ids[p[1]]].center
                d == Center(dets[p[2]])
            IN  (c[1] - d[1]) * (c[1] - d[1]) + (c[2] - d[2]) * (c[2] - d[2])]
Close(g, p) == g[p] < max_distance * max_distance

\* the candidate pairs and their order: ascending by distance, then track
\* position, then detection position
Candidates(g) == {p \in DOMAIN g : Close(g, p)}
Before(g, p, q) ==
    \/ g[p] < g[q]
    \/ g[p] = g[q] /\ (p[1] < q[1] \/ (p[1] = q[1] /\ p[2] < q[2]))

\* the reference greedy: the first of the candidates left is committed and
\* every candidate sharing its track or its detection is struck out
RECURSIVE ReferenceGreedy(_, _)
ReferenceGreedy(g, left) ==
    IF left = {} THEN <<>>
    ELSE LET first == CHOOSE p \in left : \A q \in left \ {p} : Before(g, p, q)
         IN  <<first>> \o ReferenceGreedy(g,
                             {q \in left : q[1] # first[1] /\ q[2] # first[2]})

\* C16: when tracks exist and detections are non-empty, the pairs committed
\* by update are those of the reference greedy over the pairs strictly closer
\* than max_distance, in its order: a candidate is committed iff no earlier
\* committed pair has its track or its detection; the closest candidate is
\* always committed; every other detection gets a fresh id.
C16_ReferenceGreedy ==
    [][detections' # <<>> /\ DOMAIN tracks # {} =>
        \E g \in {Gaps(tracks, detections')} :
        \E cands \in {Candidates(g)} :
        \E ref \in {ReferenceGreedy(g, cands)} :
        \E committed \in {Range(ref)} :
        \E ids \in {Position(tracks)} :
            /\ \A p \in cands :
                   p \in committed <=> ~\E q \in committed :
                                          /\ Before(g, q, p)
                                          /\ (q[1] = p[1] \/ q[2] = p[2])
            /\ cands # {} =>
                   \E p \in committed : \A q \in cands : q = p \/ Before(g, p, q)
            /\ Len(results') = Len(detections')
            /\ \A k \in 1..Len(ref) :
                   results'[k] = <<ids[ref[k][1]], detections'[ref[k][2]]>>
            /\ \A k \in (Len(ref) + 1)..Len(results') : results'[k][1] >= next_id]_vars

\* track 1 was at (10,10) when the frame (70,10), (10,10) came: it took the
\* second detection, 0 px away, before the first, 60 px away, which got a
\* fresh id
C16_Witness ==
    /\ detections = <<Box(<<70, 10>>), Box(<<10, 10>>)>>
    /\ results = <<(<<1, Box(<<10, 10>>)>>), (<<2, Box(<<70, 10>>)>>)>>
    /\ next_id = 3

\* C17: the greedy association is not a best matching.  In a frame of two
\* detections on two tracks, when the track and the detection left over by
\* the closest candidate pair are max_distance or more apart, update commits
\* that pair alone, ages the other track and gives the other detection a fresh
\* id, also when pairing the tracks with the detections the other way round
\* would have kept both under max_distance.
C17_GreedyCommitsClosestOnly ==
    [][Cardinality(DOMAIN tracks) = 2 /\ Len(detections') = 2 =>
        \E g \in {Gaps(tracks, detections')} :
        \E ids \in {Position(tracks)} :
        \A i, j \in 1..2 :
            /\ Close(g, <<i, j>>)
            /\ \A q \in Candidates(g) \ {<<i, j>>} : Before(g, <<i, j>>, q)
            /\ ~Close(g, <<3 - i, 3 - j>>)
            => /\ results' = <<(<<ids[i], detections'[j]>>),
                               (<<next_id, detections'[3 - j]>>)>>
               /\ next_id' = next_id + 1
               /\ IF tracks[ids[3 - i]].disappeared + 1 > max_disappeared
                  THEN ids[3 - i] \notin DOMAIN tracks'
                  ELSE tracks'[ids[3 - i]] =
                           [tracks[ids[3 - i]] EXCEPT !.disappeared = @ + 1]]_vars

\* tracks 1 at (10,10) and 2 at (70,10) met the frame (70,10), (70,90): track
\* 2 took the first detection, track 1 aged and the second detection became
\* track 3, although track 1 is 60 px from the first detection and track 2
\* was 80 px from the second
C17_Witness ==
    /\ detections = <<Box(<<70, 10>>), Box(<<70, 90>>)>>
    /\ results = <<(<<2, Box(<<70, 10>>)>>), (<<3, Box(<<70, 90>>)>>)>>
    /\ 1 \in DOMAIN tracks
    /\ tracks[1].center = <<10, 10>>
    /\ tracks[1].disappeared = 1
    /\ DistanceSq(tracks[1].center, Center(detections[1])) < max_distance * max_distance
    /\ DistanceSq(tracks[2].center, Center(detections[2])) < max_distance * max_distance

\* C25: after every update call each track of the registry has a disappeared
\* counter from 0 to max_disappeared and an id from 1 to next_id - 1; each
\* track matched or created in the call has the counter 0 and the centre of
\* the detection it was paired with; next_id has grown by the number of
\* tracks the call created.
C25_RegistryAfterUpdate ==
    [][/\ \A t \in DOMAIN tracks' :
              /\ 0 <= tracks'[t].disappeared
              /\ tracks'[t].disappeared <= max_disappeared
              /\ 1 <= t /\ t <= next_id' - 1
       /\ \A k \in 1..Len(results') :
              /\ results'[k][1] \in DOMAIN tracks'
              /\ tracks'[results'[k][1]].disappeared = 0
              /\ tracks'[results'[k][1]].center = Center(results'[k][2])
       /\ next_id' - next_id =
              Cardinality({k \in 1..Len(results') : results'[k][1] \notin DOMAIN tracks})]_vars

\* an update of two detections has matched track 1 with the one at (70,10)
\* and created track 2 for the one at (70,90): both have the counter 0 and
\* the centre of their detection, and next_id went from 2 to 3
C25_Witness ==
    /\ detections = <<Box(<<70, 90>>), Box(<<70, 10>>)>>
    /\ results = <<(<<1, Box(<<70, 10>>)>>), (<<2, Box(<<70, 90>>)>>)>>
    /\ unmatched[1] = 0
    /\ tracks[1] = [center |-> <<70, 10>>, disappeared |-> 0]
    /\ tracks[2] = [center |-> <<70, 90>>, disappeared |-> 0]
    /\ next_id = 3

-----------------------------------------------------------------------------
(* Claims about the frame loop of main *)

\* C21: in the frame loop, where timestamps strictly increase, the points of
\* every VehicleTrack carry timestamps that never decrease in buffer order,
\* and last_update is the timestamp of the newest point.
C21_TimestampsOrdered ==
    \A t \in DOMAIN vehicle_tracks :
        LET pts == vehicle_tracks[t].points
        IN  /\ pts # <<>>
            /\ \A k \in 1..(Len(pts) - 1) : pts[k].timestamp <= pts[k + 1].timestamp
            /\ vehicle_tracks[t].last_update = pts[Len(pts)].timestamp

\* a track holds two points of two different frames after the frame at
\* 5 s, and another track one point
C21_Witness ==
    /\ est_call.op = "frame" /\ frame_count = 5
    /\ \E t, u \in DOMAIN vehicle_tracks :
           /\ Len(vehicle_tracks[t].points) = 2
           /\ vehicle_tracks[t].points[1].timestamp < vehicle_tracks[t].points[2].timestamp
           /\ vehicle_tracks[t].last_update < 5
           /\ Len(vehicle_tracks[u].points) = 1

\* the time of the last frame of the run on which cleanup_old_tracks is called
LastCleanupTime == 10 * (MaxFrames \div 10)

\* track t is in the store and has been left without an update for so long
\* that a cleanup of the run finds it older than the age limit
LeftBehind(t) ==
    /\ t \in DOMAIN vehicle_tracks
    /\ vehicle_tracks[t].last_update + DefaultMaxAge < LastCleanupTime

\* C22: while frames keep arriving with increasing timestamps, a VehicleTrack
\* that gets no more updates is in the end removed from the store, by the
\* cleanup of a frame whose whole-second timestamp is a multiple of 10.
C22_StaleTracksPurged ==
    \A t \in 1..MaxId : LeftBehind(t) ~> ~LeftBehind(t)

\* the frame at 20 s has removed track 2, last seen before 10 s, and kept
\* track 1, seen since
C22_Witness ==
    /\ est_call.op = "frame" /\ frame_count = 20
    /\ total_vehicles = 2
    /\ DOMAIN vehicle_tracks = {1}
    /\ vehicle_tracks[1].last_update >= 10

-----------------------------------------------------------------------------
(* Claims about the two registries in process_frame *)

\* a frame has been processed by a calibrated system
FrameDone(call) == call.op = "frame" /\ ~call.raised

\* C14: the tracker registry and the trajectory store evolve independently.
\* In a frame, a VehicleTrack whose id is not in the tracker's result is left
\* as it was, whatever the tracker did with that id, unless the cleanup of
\* that frame finds it stale; no VehicleTrack appears for an id outside the
\* result; and a track stays in the tracker's registry exactly when it was
\* paired or its disappeared counter is still within max_disappeared,
\* whatever the cleanup removed from the store.
C14_RegistriesIndependent ==
    [][FrameDone(est_call') =>
        LET ids == {results'[k][1] : k \in 1..Len(results')}
            now == est_call'.time
            Stale(t) == now % 10 = 0 /\ now - vehicle_tracks[t].last_update > 10
        IN  /\ \A t \in DOMAIN vehicle_tracks \ ids :
                   IF Stale(t) THEN t \notin DOMAIN vehicle_tracks'
                   ELSE t \in DOMAIN vehicle_tracks' /\ vehicle_tracks'[t] = vehicle_tracks[t]
            /\ DOMAIN vehicle_tracks' \subseteq DOMAIN vehicle_tracks \cup ids
            /\ \A t \in DOMAIN tracks :
                   t \in DOMAIN tracks' <=>
                       (t \in ids \/ tracks[t].disappeared + 1 <= max_disappeared)
            /\ DOMAIN tracks' \subseteq DOMAIN tracks \cup ids
            /\ next_id' = next_id + Cardinality(ids \ DOMAIN tracks)]_vars

\* one id has been retired by the tracker and still has its VehicleTrack,
\* another is live in the tracker and its VehicleTrack has been cleaned up
C14_Witness ==
    /\ FrameDone(est_call)
    /\ \E t \in 1..(next_id - 1) : t \notin DOMAIN tracks /\ t \in DOMAIN vehicle_tracks
    /\ \E t \in DOMAIN tracks : t \notin DOMAIN vehicle_tracks

\* C18: the track ids in the result of one SimpleTracker.update call are
\* pairwise distinct, and in process_frame every VehicleTrack receives at
\* most one point per frame.
C18_OnePointPerTrackPerFrame ==
    [][FrameDone(est_call') =>
        /\ \A i, j \in 1..Len(results') : i # j => results'[i][1] # results'[j][1]
        /\ \A t \in DOMAIN vehicle_tracks' :
               LET before == IF t \in DOMAIN vehicle_tracks
                             THEN vehicle_tracks[t] ELSE NewVehicleTrack(t)
               IN  /\ vehicle_tracks'[t].frames_tracked <= before.frames_tracked + 1
                   /\ Len(vehicle_tracks'[t].points) <= Len(before.points) + 1]_vars

\* a frame of two detections has been processed: track 1 took the first as
\* its second point and track 2 was created for the other
C18_Witness ==
    /\ FrameDone(est_call)
    /\ Len(results) = 2
    /\ results[1][1] = 1 /\ results[2][1] = 2
    /\ DOMAIN vehicle_tracks = {1, 2}
    /\ vehicle_tracks[1].frames_tracked = 2
    /\ vehicle_tracks[2].frames_tracked = 1

=============================================================================
